---- MODULE Spec2Model ----
(***************************************************************************)
(* MovieMate-BE: movie cache store, feature-vector memo, ratings,          *)
(* collaborative filtering and hybrid ranking, modelled from app/services. *)
(*                                                                         *)
(* Time is one integer clock counting seconds.  The deployment is taken to *)
(* run in UTC (background_jobs.py:45 default), so datetime.now(),          *)
(* datetime.utcnow(), time.time() and the database's now() read the same   *)
(* clock.  vote_average is held in tenths (80 is 8.0), ratings in whole    *)
(* points.                                                                 *)
(***************************************************************************)
EXTENDS Integers, Sequences, FiniteSets, TLC

VARIABLES movie_cache, next_cache_id, now, FEATURE_VECTOR_CACHE, fetch, job,
          movies, next_movie_id, ratings, user_item_matrix_cache,
          cache_timestamp, build, clear, out,
          MOOD_BASE_CACHE,
          cleanup, password_reset_tokens, users, next_token_id, reset,
          _cache_store

vars == <<movie_cache, next_cache_id, now, FEATURE_VECTOR_CACHE, fetch, job,
          movies, next_movie_id, ratings, user_item_matrix_cache,
          cache_timestamp, build, clear, out,
          MOOD_BASE_CACHE,
          cleanup, password_reset_tokens, users, next_token_id, reset,
          _cache_store>>

\* the state of the password reset: the tables, the token source and the
\* requests in progress
authVars == <<password_reset_tokens, users, next_token_id, reset>>

\* the state of the rating tables and of CollaborativeService
cfVars == <<movies, next_movie_id, ratings, user_item_matrix_cache,
            cache_timestamp, build, clear, out,
            MOOD_BASE_CACHE, cleanup, authVars, _cache_store>>

(***************************************************************************)
(* Bounds                                                                  *)
(***************************************************************************)
MaxTmdbId == 2
MaxWorkers == 2
MaxCacheId == 2
MaxTime == 31
MaxItems == 1
MaxUsers == 3
MaxMovies == 4
MaxRated == 2
MaxSeconds == 300
MaxLimit == 3
MaxRaters == 2
MaxCacheKey == 6
MaxPool == 30
MaxTokens == 3
MaxKey == 3
MaxSize == 2
MaxOps == 4
MaxClock == 2

TmdbIds == 1..MaxTmdbId
Workers == 1..MaxWorkers

(***************************************************************************)
(* Program constants                                                       *)
(***************************************************************************)
CACHE_EXPIRY_DAYS == 7
DAY == 24 * 3600
CACHE_RETENTION_DAYS == 30
GENRE_BUCKETS == 32
KEYWORD_BUCKETS == 96
CAST_BUCKETS == 96
CREW_BUCKETS == 32
\* weights in thousandths: 0.4, 0.3, 0.2, 0.1
GENRE_WEIGHT == 400
KEYWORD_WEIGHT == 300
CAST_WEIGHT == 200
CREW_WEIGHT == 100

\* a JSON column holding NULL (Python None) instead of a list: of integers,
\* and of strings (keyword_names)
Null == <<-1>>
NullNames == <<"None">>
IsList(x) == x # Null
IsNameList(x) == x # NullNames

Take(s, n) == IF Len(s) <= n THEN s ELSE SubSeq(s, 1, n)

Range(s) == {s[i] : i \in 1..Len(s)}

(***************************************************************************)
(* MetadataProvider answers.  The provider can answer a details request    *)
(* with one of two versions of a movie's data (the data changes upstream). *)
(* TmdbDetails(v) is the JSON of /movie/{id}?append_to_response=credits,   *)
(* TmdbKeywords(v) the JSON of /movie/{id}/keywords.                       *)
(***************************************************************************)
Versions == {1, 2}

\* two more versions, of a horror movie that is filed under comedy as well
\* in the later one
MoodVersions == {3, 4}

TmdbDetails(v) ==
    IF v = 1
    THEN [title |-> "A", vote_average |-> 80, popularity |-> 50,
          release_date |-> "2020",
          genres |-> <<28>>,
          cast |-> <<5>>,
          crew |-> <<[id |-> 9, job |-> "Director"],
                     [id |-> 3, job |-> "Editor"]>>]
    ELSE IF v = 2
    THEN [title |-> "B", vote_average |-> 60, popularity |-> 20,
          release_date |-> "",
          genres |-> <<35, 28>>,
          cast |-> <<6, 5>>,
          crew |-> <<[id |-> 3, job |-> "Editor"]>>]
    ELSE IF v = 3
    THEN [title |-> "C", vote_average |-> 80, popularity |-> 50,
          release_date |-> "2020-05-01",
          genres |-> <<27>>,
          cast |-> <<5>>,
          crew |-> <<[id |-> 9, job |-> "Director"]>>]
    ELSE [title |-> "D", vote_average |-> 80, popularity |-> 50,
          release_date |-> "2020-05-01",
          genres |-> <<27, 35>>,
          cast |-> <<5>>,
          crew |-> <<[id |-> 9, job |-> "Director"]>>]

TmdbKeywords(v) ==
    IF v = 1 THEN <<[id |-> 7, name |-> "Action"]>>
    ELSE <<[id |-> 8, name |-> ""]>>

\* recommendation_service.py:168  keyword ids of the first 20 keyword items
KeywordIds(items) == [i \in 1..Len(Take(items, 20)) |-> items[i].id]

Lower(name) == IF name = "Action" THEN "action" ELSE name

\* recommendation_service.py:169-173  lower-cased non-empty names
RECURSIVE KeywordNamesOf(_)
KeywordNamesOf(items) ==
    IF items = <<>> THEN <<>>
    ELSE IF Head(items).name # ""
         THEN <<Lower(Head(items).name)>> \o KeywordNamesOf(Tail(items))
         ELSE KeywordNamesOf(Tail(items))

KeywordNames(items) == KeywordNamesOf(Take(items, 20))

KeyJobs == {"Director", "Writer", "Screenplay", "Producer"}

\* recommendation_service.py:180-183
RECURSIVE CrewOf(_)
CrewOf(crew) ==
    IF crew = <<>> THEN <<>>
    ELSE IF Head(crew).job \in KeyJobs
         THEN <<Head(crew).id>> \o CrewOf(Tail(crew))
         ELSE CrewOf(Tail(crew))

CrewIds(crew) == Take(CrewOf(crew), 5)

\* recommendation_service.py:186-200  the attributes of the row built from
\* one provider answer
FetchAttrs(v) ==
    [title |-> TmdbDetails(v).title,
     release_date |-> TmdbDetails(v).release_date,
     vote_average |-> TmdbDetails(v).vote_average,
     popularity |-> TmdbDetails(v).popularity,
     genres |-> TmdbDetails(v).genres,
     keywords |-> KeywordIds(TmdbKeywords(v)),
     keyword_names |-> KeywordNames(TmdbKeywords(v)),
     cast |-> Take(TmdbDetails(v).cast, 10),
     crew |-> CrewIds(TmdbDetails(v).crew)]

AttrFields == {"title", "release_date", "vote_average", "popularity",
               "genres", "keywords", "keyword_names", "cast", "crew"}

NewRow(id, tmdb_id, attrs, t) ==
    [id |-> id, tmdb_id |-> tmdb_id, cached_at |-> t,
     title |-> attrs.title, release_date |-> attrs.release_date,
     vote_average |-> attrs.vote_average, popularity |-> attrs.popularity,
     genres |-> attrs.genres, keywords |-> attrs.keywords,
     keyword_names |-> attrs.keyword_names, cast |-> attrs.cast,
     crew |-> attrs.crew]

AttrsOf(row) == [f \in AttrFields |-> row[f]]

RowsFor(store, tmdb_id) == {r \in store : r.tmdb_id = tmdb_id}

(***************************************************************************)
(* FeatureVectorizer: recommendation_service.py:221-317                    *)
(***************************************************************************)
\* str(value) of the integer ids the model uses
Str(n) ==
    CASE n = 3 -> "3" [] n = 5 -> "5" [] n = 6 -> "6" [] n = 7 -> "7"
      [] n = 8 -> "8" [] n = 9 -> "9" [] n = 12 -> "12" [] n = 18 -> "18"
      [] n = 27 -> "27" [] n = 28 -> "28" [] n = 35 -> "35"

StrAll(s) == [i \in 1..Len(s) |-> Str(s[i])]

\* zlib.crc32(s.encode("utf-8")) as <<high 16 bits, low 16 bits>>
Crc32(s) ==
    CASE s = "3" -> <<28114, 36507>>
      [] s = "5" -> <<33969, 11182>>
      [] s = "6" -> <<7608, 31252>>
      [] s = "7" -> <<27327, 19074>>
      [] s = "8" -> <<64000, 22291>>
      [] s = "9" -> <<36103, 26501>>
      [] s = "12" -> <<20307, 17613>>
      [] s = "18" -> <<44934, 44499>>
      [] s = "27" -> <<5140, 58241>>
      [] s = "28" -> <<33963, 65040>>
      [] s = "35" -> <<58113, 46060>>
      [] s = "action" -> <<18380, 35986>>

\* _stable_hash(val) % bucket_count
Bucket(s, bucket_count) ==
    (((Crc32(s)[1] % bucket_count) * (65536 % bucket_count)) + Crc32(s)[2])
        % bucket_count

\* vector entries are in units of 1/60000, so that weight / len(unique) is
\* exact for up to 5 distinct values
WeightUnit == 3 * 4 * 5

\* _encode_sparse_feature: the amount added to vector[offset + b] by the
\* (already str-normalised) values
EncodeSparse(values, bucket_count, weight, b) ==
    IF values = <<>> THEN 0
    ELSE LET unique == Range(values)
             norm == (weight * WeightUnit) \div Cardinality(unique)
         IN  Cardinality({u \in unique : Bucket(u, bucket_count) = b}) * norm

\* the keyword source of create_feature_vector (lines 276-280)
KeywordSource(movie) ==
    IF IsNameList(movie.keyword_names) /\ movie.keyword_names # <<>>
    THEN movie.keyword_names
    ELSE IF IsList(movie.keywords) THEN StrAll(movie.keywords)
    ELSE <<>>

ListOrEmpty(x) == IF IsList(x) THEN StrAll(x) ELSE <<>>

FEATURE_VECTOR_SIZE ==
    GENRE_BUCKETS + KEYWORD_BUCKETS + CAST_BUCKETS + CREW_BUCKETS

VectorAt(movie, i) ==
    IF i < GENRE_BUCKETS
    THEN EncodeSparse(ListOrEmpty(movie.genres), GENRE_BUCKETS,
                      GENRE_WEIGHT, i)
    ELSE IF i < GENRE_BUCKETS + KEYWORD_BUCKETS
    THEN EncodeSparse(KeywordSource(movie), KEYWORD_BUCKETS,
                      KEYWORD_WEIGHT, i - GENRE_BUCKETS)
    ELSE IF i < GENRE_BUCKETS + KEYWORD_BUCKETS + CAST_BUCKETS
    THEN EncodeSparse(ListOrEmpty(movie.cast), CAST_BUCKETS,
                      CAST_WEIGHT, i - GENRE_BUCKETS - KEYWORD_BUCKETS)
    ELSE EncodeSparse(ListOrEmpty(movie.crew), CREW_BUCKETS, CREW_WEIGHT,
                      i - GENRE_BUCKETS - KEYWORD_BUCKETS - CAST_BUCKETS)

\* the indices offset + bucket that a family of values touches
Touched(values, bucket_count, offset) ==
    {offset + Bucket(u, bucket_count) : u \in Range(values)}

\* create_feature_vector, kept sparse: the function from the indices of the
\* non-zero entries to their values
create_feature_vector(movie) ==
    LET nz == Touched(ListOrEmpty(movie.genres), GENRE_BUCKETS, 0)
              \cup Touched(KeywordSource(movie), KEYWORD_BUCKETS,
                           GENRE_BUCKETS)
              \cup Touched(ListOrEmpty(movie.cast), CAST_BUCKETS,
                           GENRE_BUCKETS + KEYWORD_BUCKETS)
              \cup Touched(ListOrEmpty(movie.crew), CREW_BUCKETS,
                           GENRE_BUCKETS + KEYWORD_BUCKETS + CAST_BUCKETS)
    IN  [i \in nz |-> VectorAt(movie, i)]

(***************************************************************************)
(* MovieCacheStore: RecommendationService.fetch_and_cache_movie            *)
(* (recommendation_service.py:125-219), one process per request worker.    *)
(* A result is the set holding the returned row, {} for None.              *)
(***************************************************************************)
IdleFetch ==
    [pc |-> "idle", movie_id |-> 0, result |-> {}, calls |-> 0,
     outcome |-> "", stale |-> {}]

\* the comparison of line 148 turned around
CachedLookupOlder(store, movie_id, t) ==
    {r \in store : r.tmdb_id = movie_id
                   /\ r.cached_at < t - CACHE_EXPIRY_DAYS * DAY}

\* lines 145-150: the row of movie_id cached less than CACHE_EXPIRY_DAYS ago
CachedLookup(store, movie_id, t) ==
    {r \in store : r.tmdb_id = movie_id
                   /\ r.cached_at > t - CACHE_EXPIRY_DAYS * DAY}

\* lines 145-156.  stale records the rows of movie_id that the freshness
\* filter of the query left out.
FetchStart(w, movie_id) ==
    /\ fetch[w].pc = "idle"
    /\ LET cached == CachedLookup(movie_cache, movie_id, now)
           call == [IdleFetch EXCEPT !.movie_id = movie_id,
                       !.stale = RowsFor(movie_cache, movie_id) \ cached]
       IN  IF cached # {}
           THEN fetch' = [fetch EXCEPT ![w] =
                    [call EXCEPT !.pc = "done", !.outcome = "hit",
                                 !.result = {CHOOSE r \in cached : TRUE}]]
           ELSE fetch' = [fetch EXCEPT ![w] = [call EXCEPT !.pc = "tmdb"]]
    /\ UNCHANGED cfVars
    /\ UNCHANGED <<movie_cache, next_cache_id, now, FEATURE_VECTOR_CACHE,
                   job>>

\* lines 159-162 raising HTTPException (details request: n = 1, keywords
\* request: n = 2), handled at lines 212-215
FetchProviderFails(w, n) ==
    /\ fetch[w].pc = "tmdb"
    /\ fetch' = [fetch EXCEPT ![w].pc = "done", ![w].calls = n,
                              ![w].outcome = "provider_failed",
                              ![w].result = {}]
    /\ UNCHANGED cfVars
    /\ UNCHANGED <<movie_cache, next_cache_id, now, FEATURE_VECTOR_CACHE,
                   job>>

\* dict.pop(key, None)
DictPop(d, key) == [k \in (DOMAIN d) \ {key} |-> d[k]]

\* lines 159-210: the provider answers with version v; the new row is added
\* and committed.  tmdb_id is unique (movie_cache.py:34): the INSERT of a
\* second row for the id raises IntegrityError, handled at lines 216-219.
FetchStore(w, v) ==
    /\ fetch[w].pc = "tmdb"
    /\ LET movie_id == fetch[w].movie_id
           new_cache == NewRow(next_cache_id, movie_id, FetchAttrs(v), now)
       IN  IF RowsFor(movie_cache, movie_id) # {}
           THEN /\ fetch' = [fetch EXCEPT ![w].pc = "done", ![w].calls = 2,
                                          ![w].outcome = "db_error",
                                          ![w].result = {}]
                /\ UNCHANGED <<movie_cache, next_cache_id,
                               FEATURE_VECTOR_CACHE>>
           ELSE /\ next_cache_id <= MaxCacheId
                /\ movie_cache' = movie_cache \cup {new_cache}
                /\ next_cache_id' = next_cache_id + 1
                /\ FEATURE_VECTOR_CACHE' =
                       DictPop(FEATURE_VECTOR_CACHE, movie_id)
                /\ fetch' = [fetch EXCEPT ![w].pc = "done", ![w].calls = 2,
                                          ![w].outcome = "stored",
                                          ![w].result = {new_cache}]
    /\ UNCHANGED cfVars
    /\ UNCHANGED <<now, job>>

\* the caller takes the result
FetchReturn(w) ==
    /\ fetch[w].pc = "done"
    /\ fetch' = [fetch EXCEPT ![w] = IdleFetch]
    /\ UNCHANGED cfVars
    /\ UNCHANGED <<movie_cache, next_cache_id, now, FEATURE_VECTOR_CACHE,
                   job>>

(***************************************************************************)
(* BackgroundJobService (background_jobs.py): update_trending_movies with  *)
(* _update_or_create_cache, and cleanup_old_cache.  The job's session has  *)
(* autoflush off (database.py:37): its writes are staged until the commit. *)
(***************************************************************************)
\* one entry of the provider's trending list.  TMDB list entries carry
\* genre_ids, a list of integers: empty for kind 1, [28] for kind 2.
ItemKinds == {1, 2}

TrendingItem(id, kind) ==
    [id |-> id, title |-> "T", vote_average |-> 70, popularity |-> 90,
     release_date |-> "2021",
     genre_ids |-> IF kind = 1 THEN <<>> ELSE <<28>>]

\* line 325: g['id'] for g in genre_ids raises TypeError when genre_ids
\* holds an integer
GenresRaises(movie_data) == movie_data.genre_ids # <<>>

\* lines 317-327
CacheData(movie_data, t) ==
    [title |-> movie_data.title, release_date |-> movie_data.release_date,
     vote_average |-> movie_data.vote_average,
     popularity |-> movie_data.popularity,
     genres |-> <<>>, cached_at |-> t]

\* lines 329-332: setattr of every key of cache_data on the existing row
UpdatedRow(row, data) ==
    [row EXCEPT !.title = data.title, !.release_date = data.release_date,
                !.vote_average = data.vote_average,
                !.popularity = data.popularity, !.genres = data.genres,
                !.cached_at = data.cached_at]

\* lines 334-337: MovieCache(**cache_data); the other columns stay NULL
CreatedRow(id, tmdb_id, data) ==
    [id |-> id, tmdb_id |-> tmdb_id, cached_at |-> data.cached_at,
     title |-> data.title, release_date |-> data.release_date,
     vote_average |-> data.vote_average, popularity |-> data.popularity,
     genres |-> data.genres, keywords |-> Null, keyword_names |-> NullNames,
     cast |-> Null, crew |-> Null]

\* background_jobs.py:88-97, routes/admin.py:83-107  who runs
\* cleanup_old_cache: the scheduler's worker thread, or the event loop that
\* serves the manual trigger
CleanupExecutors == {"scheduler", "admin"}

\* no execution of cleanup_old_cache in progress; status is
\* job_stats['cleanup_cache']['status'] (background_jobs.py:54)
IdleCleanup ==
    [pc |-> [e \in CleanupExecutors |-> "idle"],
     cutoff_date |-> [e \in CleanupExecutors |-> 0],
     deleted |-> [e \in CleanupExecutors |-> {}],
     status |-> "idle"]

\* an empty users table
NoUsers == <<>>

\* a worker that serves no reset_password request
IdleReset ==
    [pc |-> "idle", token |-> 0, new_password |-> 0, reset_record |-> {},
     now |-> 0, outcome |-> ""]

IdleJob == [pc |-> "idle", items |-> {}, staged |-> {}, status |-> "idle"]

\* the lists the provider can answer with: at most MaxItems entries with
\* distinct ids (line 168 removes duplicates); id 0 stands for a missing id
ItemLists(ids) ==
    {l \in SUBSET ((ids \cup {0}) \X ItemKinds) :
        /\ Cardinality(l) <= MaxItems
        /\ \A a, b \in l : a[1] = b[1] => a = b}

\* lines 152-168
JobStart(list) ==
    /\ job.pc = "idle"
    /\ job' = [IdleJob EXCEPT !.pc = "loop", !.status = "running",
                              !.items = {TrendingItem(e[1], e[2]) : e \in list}]
    /\ UNCHANGED cfVars
    /\ UNCHANGED <<movie_cache, next_cache_id, now, FEATURE_VECTOR_CACHE,
                   fetch>>

\* lines 163-164 raising, handled at lines 183-192
JobProviderFails ==
    /\ job.pc = "idle"
    /\ job' = [IdleJob EXCEPT !.pc = "done", !.status = "failed"]
    /\ UNCHANGED cfVars
    /\ UNCHANGED <<movie_cache, next_cache_id, now, FEATURE_VECTOR_CACHE,
                   fetch>>

\* one iteration of the loop at lines 171-173: _update_or_create_cache
JobStep(movie_data) ==
    /\ job.pc = "loop"
    /\ movie_data \in job.items
    /\ LET existing == RowsFor(movie_cache, movie_data.id)
           rest == job.items \ {movie_data}
           data == CacheData(movie_data, now)
       IN  IF movie_data.id = 0
           THEN job' = [job EXCEPT !.items = rest]
           ELSE IF GenresRaises(movie_data)
           THEN job' = [IdleJob EXCEPT !.pc = "done", !.status = "failed"]
           ELSE IF existing # {}
           THEN job' = [job EXCEPT !.items = rest, !.staged = @ \cup
                    {[op |-> "update", pk |-> (CHOOSE r \in existing : TRUE).id,
                      tmdb_id |-> movie_data.id, data |-> data]}]
           ELSE job' = [job EXCEPT !.items = rest, !.staged = @ \cup
                    {[op |-> "insert", pk |-> 0,
                      tmdb_id |-> movie_data.id, data |-> data]}]
    /\ UNCHANGED cfVars
    /\ UNCHANGED <<movie_cache, next_cache_id, now, FEATURE_VECTOR_CACHE,
                   fetch>>

\* the ids the INSERTs of a flush get, in tmdb_id order
RECURSIVE InsertRows(_, _)
InsertRows(ops, id) ==
    IF ops = {} THEN {}
    ELSE LET o == CHOOSE x \in ops : \A y \in ops : x.tmdb_id <= y.tmdb_id
         IN  {CreatedRow(id, o.tmdb_id, o.data)}
                 \cup InsertRows(ops \ {o}, id + 1)

\* line 175: db.commit().  An UPDATE whose row is gone (StaleDataError) or an
\* INSERT of an id that is stored by now (IntegrityError) raises; lines
\* 183-192 roll the whole transaction back.
JobCommit ==
    /\ job.pc = "loop"
    /\ job.items = {}
    /\ LET updates == {o \in job.staged : o.op = "update"}
           inserts == {o \in job.staged : o.op = "insert"}
           raises == \/ \E o \in updates :
                           ~ \E r \in movie_cache : r.id = o.pk
                     \/ \E o \in inserts :
                           RowsFor(movie_cache, o.tmdb_id) # {}
           kept == {r \in movie_cache : \A o \in updates : o.pk # r.id}
           updated == {UpdatedRow(r, o.data) :
                          <<r, o>> \in {p \in movie_cache \X updates :
                                            p[1].id = p[2].pk}}
       IN  IF raises
           THEN /\ job' = [IdleJob EXCEPT !.pc = "done", !.status = "failed"]
                /\ UNCHANGED <<movie_cache, next_cache_id>>
           ELSE /\ next_cache_id + Cardinality(inserts) <= MaxCacheId + 1
                /\ movie_cache' = kept \cup updated
                                      \cup InsertRows(inserts, next_cache_id)
                /\ next_cache_id' = next_cache_id + Cardinality(inserts)
                /\ job' = [IdleJob EXCEPT !.pc = "done",
                                          !.status = "success"]
    /\ UNCHANGED cfVars
    /\ UNCHANGED <<now, FEATURE_VECTOR_CACHE, fetch>>

\* the job function returns; the scheduler may start it again
JobReturn ==
    /\ job.pc = "done"
    /\ job' = IdleJob
    /\ UNCHANGED cfVars
    /\ UNCHANGED <<movie_cache, next_cache_id, now, FEATURE_VECTOR_CACHE,
                   fetch>>

\* cleanup_old_cache, lines 248-293: one DELETE statement and its commit
cleanup_old_cache ==
    /\ movie_cache' = {r \in movie_cache :
                          ~ (r.cached_at < now - CACHE_RETENTION_DAYS * DAY)}
    /\ movie_cache' # movie_cache
    /\ UNCHANGED cfVars
    /\ UNCHANGED <<next_cache_id, now, FEATURE_VECTOR_CACHE, fetch, job>>

\* cleanup_old_cache step by step, run by executor e.
\* background_jobs.py:253-264  the status is set, the session opened and
\* the cutoff computed.  The scheduler starts no second instance of the job
\* (max_instances=1, :95); the manual trigger is an async route that calls
\* the function on the event loop (admin.py:83-96), which serves one call
\* at a time.
cleanup_old_cache_begin(e) ==
    /\ cleanup.pc[e] = "idle"
    /\ cleanup' = [cleanup EXCEPT
                      !.pc[e] = "running",
                      !.status = "running",
                      !.cutoff_date[e] = now - CACHE_RETENTION_DAYS * DAY]
    /\ UNCHANGED <<movie_cache, next_cache_id, now, FEATURE_VECTOR_CACHE,
                   fetch, job, movies, next_movie_id, ratings,
                   user_item_matrix_cache, cache_timestamp, build, clear,
                   out, MOOD_BASE_CACHE, authVars,
                   _cache_store>>

\* background_jobs.py:267-269  the DELETE statement, inside the session's
\* transaction
cleanup_old_cache_delete(e) ==
    /\ cleanup.pc[e] = "running"
    /\ cleanup' = [cleanup EXCEPT
                      !.pc[e] = "deleted",
                      !.deleted[e] =
                          {r.id : r \in {m \in movie_cache :
                               m.cached_at < cleanup.cutoff_date[e]}}]
    /\ UNCHANGED <<movie_cache, next_cache_id, now, FEATURE_VECTOR_CACHE,
                   fetch, job, movies, next_movie_id, ratings,
                   user_item_matrix_cache, cache_timestamp, build, clear,
                   out, MOOD_BASE_CACHE, authVars,
                   _cache_store>>

\* background_jobs.py:271-277  the commit and the status of the run
cleanup_old_cache_commit(e) ==
    /\ cleanup.pc[e] = "deleted"
    /\ movie_cache' = {r \in movie_cache : r.id \notin cleanup.deleted[e]}
    /\ cleanup' = [cleanup EXCEPT
                      !.pc[e] = "idle",
                      !.status = "success",
                      !.cutoff_date[e] = 0,
                      !.deleted[e] = {}]
    /\ UNCHANGED <<next_cache_id, now, FEATURE_VECTOR_CACHE,
                   fetch, job, movies, next_movie_id, ratings,
                   user_item_matrix_cache, cache_timestamp, build, clear,
                   out, MOOD_BASE_CACHE, authVars,
                   _cache_store>>

\* routes/recommendations.py:19-63  the read routes are async as well: they
\* are served by the event loop, when it is not inside the manual trigger
EventLoopFree == cleanup.pc["admin"] = "idle"

\* _get_feature_vector (lines 310-317) called on a stored movie, as
\* get_similar_movies does at lines 441-444
GetFeatureVector(movie) ==
    /\ movie \in movie_cache
    /\ IF movie.tmdb_id \in DOMAIN FEATURE_VECTOR_CACHE
       THEN UNCHANGED FEATURE_VECTOR_CACHE
       ELSE FEATURE_VECTOR_CACHE' =
               [k \in (DOMAIN FEATURE_VECTOR_CACHE) \cup {movie.tmdb_id} |->
                   IF k = movie.tmdb_id THEN create_feature_vector(movie)
                   ELSE FEATURE_VECTOR_CACHE[k]]
    /\ UNCHANGED cfVars
    /\ UNCHANGED <<movie_cache, next_cache_id, now, fetch, job>>

(***************************************************************************)
(* Ratings (models/movie.py, models/rating.py, rating_service.py) and      *)
(* CollaborativeService (collaborative_service.py).  A Movie row is its    *)
(* primary key id and its tmdb_id; a Rating row is (user_id, movie_id,     *)
(* rating) with movie_id the Movie's primary key, unique per (user_id,     *)
(* movie_id) (rating.py:20-23), so the pair stands for the rating's id.    *)
(***************************************************************************)
MIN_RATINGS_FOR_CF == 10
DEFAULT_K_NEIGHBORS == 10
MIN_PREDICTED_RATING == 6
MAX_CANDIDATE_MOVIES == 100
CACHE_TTL_SECONDS == 300

Users == 1..MaxUsers

\* the external ids the tables hold from the start
CatalogIds == 1..MaxMovies

\* _cache_timestamp = None
NoTime == -1

RECURSIVE SumOver(_, _)
SumOver(f, S) ==
    IF S = {} THEN 0
    ELSE LET x == CHOOSE y \in S : TRUE
         IN  f[x] + SumOver(f, S \ {x})

\* a set of integers in ascending order
RECURSIVE SetToSeq(_)
SetToSeq(S) ==
    IF S = {} THEN <<>>
    ELSE LET first == CHOOSE x \in S : \A y \in S : x <= y
         IN  <<first>> \o SetToSeq(S \ {first})

\* rows ordered by primary key
RECURSIVE SeqById(_)
SeqById(rows) ==
    IF rows = {} THEN <<>>
    ELSE LET first == CHOOSE r \in rows : \A q \in rows : r.id <= q.id
         IN  <<first>> \o SeqById(rows \ {first})

\* list.sort(key=f, reverse=True) and sorted(...): stable, descending in f
RECURSIVE InsertDesc(_, _, _)
InsertDesc(x, s, f) ==
    IF s = <<>> THEN <<x>>
    ELSE IF Head(s)[f] >= x[f] THEN <<Head(s)>> \o InsertDesc(x, Tail(s), f)
         ELSE <<x>> \o s

RECURSIVE SortDescN(_, _, _)
SortDescN(s, f, n) ==
    IF n = 0 THEN <<>> ELSE InsertDesc(s[n], SortDescN(s, f, n - 1), f)

SortDesc(s, f) == SortDescN(s, f, Len(s))

\* ORDER BY popularity DESC; rows of equal popularity come in key order
OrderByPopularity(rows) == SortDesc(SeqById(rows), "popularity")

\* collaborative_service.py:72-85  the (matrix, user_to_idx, movie_to_idx)
\* triple of a set of ratings; an index stands for the id it is the index of
UserItemMatrix(rs) ==
    LET user_ids == {r.user_id : r \in rs}
        movie_ids == {r.movie_id : r \in rs}
    IN  [matrix |-> [u \in user_ids |-> [m \in movie_ids |->
                        LET hit == {r \in rs : r.user_id = u
                                                /\ r.movie_id = m}
                        IN  IF hit = {} THEN 0
                            ELSE (CHOOSE r \in hit : TRUE).rating]],
         user_to_idx |-> user_ids,
         movie_to_idx |-> movie_ids]

\* collaborative_service.py:40-45
IsCacheValid(timestamp, t) ==
    timestamp # NoTime /\ t - timestamp < CACHE_TTL_SECONDS

\* collaborative_service.py:48-97  build_user_item_matrix run without
\* interleaving: what it returns (kind, value) and what it leaves in the
\* two class attributes.  value is {} for None and {triple} for a triple;
\* kind "none" is the bare None read from _user_item_matrix_cache.
BuildUserItemMatrix(cache, timestamp, rs, t, force_refresh) ==
    IF ~ force_refresh /\ IsCacheValid(timestamp, t)
    THEN [kind |-> IF cache = {} THEN "none" ELSE "triple", value |-> cache,
          cache |-> cache, timestamp |-> timestamp]
    ELSE IF Cardinality(rs) < MIN_RATINGS_FOR_CF
         THEN [kind |-> "insufficient", value |-> {},
               cache |-> cache, timestamp |-> timestamp]
         ELSE [kind |-> "triple", value |-> {UserItemMatrix(rs)},
               cache |-> {UserItemMatrix(rs)}, timestamp |-> t]

Dot(M, u, v) ==
    SumOver([m \in M.movie_to_idx |-> M.matrix[u][m] * M.matrix[v][m]],
            M.movie_to_idx)

\* sklearn cosine_similarity of two rating rows, in hundredths rounded down
Cosine(M, u, v) ==
    LET d == Dot(M, u, v)
        nn == Dot(M, u, u) * Dot(M, v, v)
    IN  CHOOSE k \in 0..100 :
            /\ k * k * nn <= 10000 * d * d
            /\ (k = 100 \/ (k + 1) * (k + 1) * nn > 10000 * d * d)

\* the rows of cosine similarity 1 with u's row: u's own and every row that
\* is a multiple of it
Parallel(M, u) ==
    {v \in M.user_to_idx :
        \A a, b \in M.movie_to_idx :
            M.matrix[u][a] * M.matrix[v][b] = M.matrix[u][b] * M.matrix[v][a]}

\* collaborative_service.py:130  np.argsort(similarities)[::-1][1:k+1]: the
\* first index of the descending order is dropped and the next k kept.
\* first is one of the rows of greatest similarity (which of several equal
\* ones argsort puts first is decided by floating-point rounding); the
\* result is every set the slice can be.
get_user_similarity(M, u, k, first) ==
    LET rest == M.user_to_idx \ {first}
        n == IF Cardinality(rest) <= k THEN Cardinality(rest) ELSE k
    IN  {N \in SUBSET rest :
            /\ Cardinality(N) = n
            /\ \A a \in N, b \in rest \ N : Cosine(M, u, a) >= Cosine(M, u, b)}

\* collaborative_service.py:179-207  the prediction for one movie, in
\* thousandths of a rating point: {} when the movie gets none
PredictOne(M, u, similar_users, movie_id) ==
    IF movie_id \notin M.movie_to_idx THEN {}
    ELSE IF M.matrix[u][movie_id] > 0 THEN {1000 * M.matrix[u][movie_id]}
    ELSE LET raters == {v \in similar_users : M.matrix[v][movie_id] > 0}
             numerator == SumOver([v \in raters |->
                              Cosine(M, u, v) * M.matrix[v][movie_id]],
                              raters)
             denominator == SumOver([v \in raters |-> Cosine(M, u, v)],
                                    raters)
         IN  IF denominator > 0 THEN {(1000 * numerator) \div denominator}
             ELSE {}

\* the predictions dict as the list of its items, in insertion order
RECURSIVE Predictions(_, _, _, _)
Predictions(M, u, similar_users, movie_ids) ==
    IF movie_ids = <<>> THEN <<>>
    ELSE LET p == PredictOne(M, u, similar_users, Head(movie_ids))
             rest == Predictions(M, u, similar_users, Tail(movie_ids))
         IN  IF p = {} THEN rest
             ELSE <<[movie_id |-> Head(movie_ids),
                     predicted_rating |-> CHOOSE x \in p : TRUE]>> \o rest

\* collaborative_service.py:139-209  predict_ratings_collaborative after
\* the matrix was built: every result it can have.  Unpacking a bare None
\* at line 158 raises TypeError.
PredictRatings(built, user_id, movie_ids, k) ==
    IF built.kind = "none" THEN {[kind |-> "raised", value |-> <<>>]}
    ELSE IF built.kind = "insufficient"
    THEN {[kind |-> "ok", value |-> <<>>]}
    ELSE LET M == CHOOSE x \in built.value : TRUE
         IN  IF user_id \notin M.user_to_idx
             THEN {[kind |-> "ok", value |-> <<>>]}
             ELSE {[kind |-> "ok",
                    value |-> IF similar_users = {} THEN <<>>
                              ELSE Predictions(M, user_id, similar_users,
                                               movie_ids)] :
                     similar_users \in UNION {
                         get_user_similarity(M, user_id, k, first) :
                             first \in Parallel(M, user_id)}}

\* the tables as they stand when the modelled requests begin: CatalogIds are
\* in movies and in movie_cache, with primary keys that differ from the
\* tmdb_id and from each other (rows are numbered in the order of their
\* insertion, not by external id)
MovieIdOf(tmdb_id) == MaxMovies + 1 - tmdb_id
CacheIdOf(tmdb_id) == (tmdb_id % MaxMovies) + 1

CatalogRow(t) ==
    [id |-> CacheIdOf(t), tmdb_id |-> t, title |-> "M",
     cached_at |-> IF t = MaxMovies THEN 0 - (CACHE_EXPIRY_DAYS + 1) * DAY
                   ELSE 0,
     release_date |-> IF t % 4 = 3 THEN "2020" ELSE "",
     vote_average |-> IF t % 4 = 1 THEN 80
                      ELSE IF t % 4 = 2 THEN 85
                      ELSE IF t % 4 = 3 THEN 20 ELSE 90,
     popularity |-> IF t % 4 = 3 THEN 5 ELSE 60 - 10 * t,
     genres |-> IF t % 4 = 3 THEN <<28, 35, 18>>
                ELSE IF t % 4 = 0 THEN <<99>> ELSE <<28>>,
     keywords |-> <<>>, keyword_names |-> <<>>, cast |-> <<5>>,
     crew |-> <<9>>]

\* the ratings of the users other than user 1: each has rated every movie
\* of the catalogue
OtherRating(u, t) == IF t % 4 = 0 THEN 1 + (u % 3) ELSE 7 + ((u + t) % 3)

CatalogRatings ==
    {[user_id |-> u, movie_id |-> MovieIdOf(t), rating |-> OtherRating(u, t)] :
        u \in Users \ {1}, t \in CatalogIds}

IdleBuild ==
    [pc |-> "idle", local |-> {}, result |-> [kind |-> "", value |-> {}]]

IdleOut ==
    [op |-> "", user_id |-> 0, movie_id |-> 0, limit |-> 0, kind |-> "",
     value |-> <<>>, seed |-> 0, key |-> 0]

\* rating_service.py:48-77  the MovieCache row _ensure_movie_in_cache builds
\* from the details answer, which carries no 'keywords' key
RatingCacheAttrs(v) ==
    [title |-> TmdbDetails(v).title,
     release_date |-> TmdbDetails(v).release_date,
     vote_average |-> TmdbDetails(v).vote_average,
     popularity |-> TmdbDetails(v).popularity,
     genres |-> TmdbDetails(v).genres,
     keywords |-> <<>>,
     keyword_names |-> <<>>,
     cast |-> Take(TmdbDetails(v).cast, 10),
     crew |-> CrewOf(TmdbDetails(v).crew)]

\* db.add(Rating(...)) whether or not the pair has a row
InsertRating(rs, user_id, internal_movie_id, rating) ==
    {rs \cup {[user_id |-> user_id, movie_id |-> internal_movie_id,
               rating |-> rating]}}

\* rating_service.py:155-200  the tables the call can leave: the row that
\* .first() found for (user_id, internal_movie_id) gets the new value, or a
\* row is inserted when the query found none
UpsertRating(rs, user_id, internal_movie_id, rating) ==
    LET existing == {r \in rs : /\ r.user_id = user_id
                                /\ r.movie_id = internal_movie_id}
    IN  IF existing # {}
        THEN {(rs \ {existing_rating})
                 \cup {[existing_rating EXCEPT !.rating = rating]} :
                 existing_rating \in existing}
        ELSE {rs \cup {[user_id |-> user_id, movie_id |-> internal_movie_id,
                        rating |-> rating]}}

\* rating_service.py:127-200 with _ensure_movie_exists (84-125) and
\* _ensure_movie_in_cache (24-81).  answer is the provider's: a version of
\* the details, or 0 for a failed request.  A failed request for a movie
\* that is not in movies ends the call with HTTP 500 and nothing stored.
add_or_update_rating(user_id, tmdb_id, rating, answer) ==
    /\ rating >= 1 /\ rating <= 10
    /\ LET known == {m \in movies : m.tmdb_id = tmdb_id}
           internal_movie_id == IF known # {} THEN (CHOOSE m \in known : TRUE).id
                                ELSE next_movie_id
       IN  /\ known = {} => (answer # 0 /\ next_movie_id <= MaxMovies + 1)
           /\ IF known # {}
              THEN UNCHANGED <<movies, next_movie_id>>
              ELSE /\ movies' = movies \cup {[id |-> next_movie_id,
                                              tmdb_id |-> tmdb_id]}
                   /\ next_movie_id' = next_movie_id + 1
           /\ IF RowsFor(movie_cache, tmdb_id) = {} /\ answer # 0
              THEN /\ next_cache_id <= MaxMovies + 1
                   /\ movie_cache' = movie_cache \cup
                          {NewRow(next_cache_id, tmdb_id,
                                  RatingCacheAttrs(answer), now)}
                   /\ next_cache_id' = next_cache_id + 1
              ELSE UNCHANGED <<movie_cache, next_cache_id>>
           /\ ratings' \in UpsertRating(ratings, user_id, internal_movie_id,
                                        rating)
    /\ UNCHANGED <<now, FEATURE_VECTOR_CACHE, fetch, job,
                   user_item_matrix_cache, cache_timestamp, build, clear,
                   MOOD_BASE_CACHE,
                   out,
                   cleanup, authVars,
                   _cache_store>>

\* rating_service.py:263-292
delete_rating(user_id, movie_id) ==
    /\ \E r \in ratings : r.user_id = user_id /\ r.movie_id = movie_id
    /\ ratings' = {r \in ratings : ~ (r.user_id = user_id
                                      /\ r.movie_id = movie_id)}
    /\ UNCHANGED <<movie_cache, next_cache_id, now, FEATURE_VECTOR_CACHE,
                   fetch, job, movies, next_movie_id,
                   user_item_matrix_cache, cache_timestamp, build, clear,
                   MOOD_BASE_CACHE,
                   out,
                   cleanup, authVars,
                   _cache_store>>

\* collaborative_service.py:139-209 as one step
predict_ratings_collaborative(user_id, movie_ids, k) ==
    /\ out = IdleOut
    /\ LET built == BuildUserItemMatrix(user_item_matrix_cache,
                        cache_timestamp, ratings, now, FALSE)
       IN  /\ user_item_matrix_cache' = built.cache
           /\ cache_timestamp' = built.timestamp
           /\ \E res \in PredictRatings(built, user_id, movie_ids, k) :
                 out' = [IdleOut EXCEPT !.op = "predict",
                            !.user_id = user_id, !.kind = res.kind,
                            !.value = res.value]
    /\ UNCHANGED <<movie_cache, next_cache_id, now, FEATURE_VECTOR_CACHE,
                   fetch, job, movies, next_movie_id, ratings, build, clear,
                   MOOD_BASE_CACHE,
                   cleanup, authVars,
                   _cache_store>>

\* the caller takes the result
TakeResult ==
    /\ out # IdleOut
    /\ out' = IdleOut
    /\ UNCHANGED <<movie_cache, next_cache_id, now, FEATURE_VECTOR_CACHE,
                   fetch, job, movies, next_movie_id, ratings,
                   user_item_matrix_cache, cache_timestamp, build, clear,
                   MOOD_BASE_CACHE,
                   cleanup, authVars,
                   _cache_store>>

(***************************************************************************)
(* build_user_item_matrix and clear_cache statement by statement, one      *)
(* process per thread.  The class attributes _user_item_matrix_cache and   *)
(* _cache_timestamp are read and written without a lock.                   *)
(***************************************************************************)
\* line 60 with _is_cache_valid's line 42: the first read of the timestamp
BuildCall(w, force_refresh) ==
    /\ build[w].pc = "idle"
    /\ build' = [build EXCEPT ![w].pc =
                    IF force_refresh \/ cache_timestamp = NoTime
                    THEN "query" ELSE "valid"]
    /\ UNCHANGED <<movie_cache, next_cache_id, now, FEATURE_VECTOR_CACHE,
                   fetch, job, movies, next_movie_id, ratings,
                   user_item_matrix_cache, cache_timestamp, clear,
                   MOOD_BASE_CACHE, out,
                   cleanup, authVars,
                   _cache_store>>

\* line 45: the second read of the timestamp; time.time() - None raises
\* TypeError, which line 60 does not handle
BuildValid(w) ==
    /\ build[w].pc = "valid"
    /\ build' = [build EXCEPT ![w] =
                    IF cache_timestamp = NoTime
                    THEN [IdleBuild EXCEPT !.pc = "done",
                                           !.result.kind = "raised"]
                    ELSE IF now - cache_timestamp < CACHE_TTL_SECONDS
                         THEN [IdleBuild EXCEPT !.pc = "read"]
                         ELSE [IdleBuild EXCEPT !.pc = "query"]]
    /\ UNCHANGED <<movie_cache, next_cache_id, now, FEATURE_VECTOR_CACHE,
                   fetch, job, movies, next_movie_id, ratings,
                   user_item_matrix_cache, cache_timestamp, clear,
                   MOOD_BASE_CACHE, out,
                   cleanup, authVars,
                   _cache_store>>

\* line 61: return _user_item_matrix_cache
BuildRead(w) ==
    /\ build[w].pc = "read"
    /\ build' = [build EXCEPT ![w].pc = "done",
                    ![w].result =
                        [kind |-> IF user_item_matrix_cache = {} THEN "none"
                                  ELSE "triple",
                         value |-> user_item_matrix_cache]]
    /\ UNCHANGED <<movie_cache, next_cache_id, now, FEATURE_VECTOR_CACHE,
                   fetch, job, movies, next_movie_id, ratings,
                   user_item_matrix_cache, cache_timestamp, clear,
                   MOOD_BASE_CACHE, out,
                   cleanup, authVars,
                   _cache_store>>

\* lines 65-85: the query of all ratings and the matrix built from it
BuildQuery(w) ==
    /\ build[w].pc = "query"
    /\ build' = [build EXCEPT ![w] =
                    IF Cardinality(ratings) < MIN_RATINGS_FOR_CF
                    THEN [IdleBuild EXCEPT !.pc = "done",
                                           !.result.kind = "insufficient"]
                    ELSE [IdleBuild EXCEPT !.pc = "store",
                                           !.local = {UserItemMatrix(ratings)}]]
    /\ UNCHANGED <<movie_cache, next_cache_id, now, FEATURE_VECTOR_CACHE,
                   fetch, job, movies, next_movie_id, ratings,
                   user_item_matrix_cache, cache_timestamp, clear,
                   MOOD_BASE_CACHE, out,
                   cleanup, authVars,
                   _cache_store>>

\* line 89
BuildStoreCache(w) ==
    /\ build[w].pc = "store"
    /\ user_item_matrix_cache' = build[w].local
    /\ build' = [build EXCEPT ![w].pc = "stamp"]
    /\ UNCHANGED <<movie_cache, next_cache_id, now, FEATURE_VECTOR_CACHE,
                   fetch, job, movies, next_movie_id, ratings,
                   cache_timestamp, clear,
                   MOOD_BASE_CACHE, out,
                   cleanup, authVars,
                   _cache_store>>

\* lines 90-93
BuildStamp(w) ==
    /\ build[w].pc = "stamp"
    /\ cache_timestamp' = now
    /\ build' = [build EXCEPT ![w].pc = "done",
                    ![w].result = [kind |-> "triple",
                                   value |-> build[w].local]]
    /\ UNCHANGED <<movie_cache, next_cache_id, now, FEATURE_VECTOR_CACHE,
                   fetch, job, movies, next_movie_id, ratings,
                   user_item_matrix_cache, clear,
                   MOOD_BASE_CACHE, out,
                   cleanup, authVars,
                   _cache_store>>

\* the caller takes the result
BuildReturn(w) ==
    /\ build[w].pc = "done"
    /\ build' = [build EXCEPT ![w] = IdleBuild]
    /\ UNCHANGED <<movie_cache, next_cache_id, now, FEATURE_VECTOR_CACHE,
                   fetch, job, movies, next_movie_id, ratings,
                   user_item_matrix_cache, cache_timestamp, clear,
                   MOOD_BASE_CACHE, out,
                   cleanup, authVars,
                   _cache_store>>

\* clear_cache, line 289
ClearMatrix ==
    /\ clear = "idle"
    /\ user_item_matrix_cache' = {}
    /\ clear' = "stamp"
    /\ UNCHANGED <<movie_cache, next_cache_id, now, FEATURE_VECTOR_CACHE,
                   fetch, job, movies, next_movie_id, ratings,
                   cache_timestamp, build, out,
                   MOOD_BASE_CACHE,
                   cleanup, authVars,
                   _cache_store>>

\* clear_cache, line 290
ClearTimestamp ==
    /\ clear = "stamp"
    /\ cache_timestamp' = NoTime
    /\ clear' = "idle"
    /\ UNCHANGED <<movie_cache, next_cache_id, now, FEATURE_VECTOR_CACHE,
                   fetch, job, movies, next_movie_id, ratings,
                   user_item_matrix_cache, build, out,
                   MOOD_BASE_CACHE,
                   cleanup, authVars,
                   _cache_store>>

\* time passes, by s seconds
TickSeconds(s) ==
    /\ now + s <= MaxSeconds
    /\ now' = now + s
    /\ UNCHANGED <<movie_cache, next_cache_id, FEATURE_VECTOR_CACHE, fetch,
                   job>>
    /\ UNCHANGED cfVars

(***************************************************************************)
(* RecommendationService.get_similar_movies, get_similar_by_genre and      *)
(* get_hybrid_recommendations with                                         *)
(* CollaborativeService.get_collaborative_recommendations.  A similarity   *)
(* score and a normalized score are held in thousandths, a hybrid score in *)
(* ten-thousandths; a division rounds down.                                *)
(***************************************************************************)
MIN_CACHE_SIZE == 30
SIMILAR_MIN_RATING == 55
SIMILAR_MAX_CANDIDATES == 1000
HYBRID_CONTENT_WEIGHT == 7
HYBRID_COLLABORATIVE_WEIGHT == 3
\* recommendation_service.py:1147 and :1023, vote_average >= 7.0
POPULAR_MIN_RATING == 70
\* recommendation_service.py:1158-1160, content_score 0.5, hybrid_score 0.35
FALLBACK_CONTENT_SCORE == 500
FALLBACK_HYBRID_SCORE == 3500

Min(a, b) == IF a <= b THEN a ELSE b

GenreSet(movie) == IF IsList(movie.genres) THEN Range(movie.genres) ELSE {}

\* recommendation_service.py:125-219  fetch_and_cache_movie as one step:
\* the returned row ({} for None) and the store, key counter and memo it
\* leaves.  answer is the provider's: a version, or 0 for a failed request.
FetchAndCache(store, next_id, memo, movie_id, t, answer) ==
    LET cached == CachedLookup(store, movie_id, t)
        new_cache == NewRow(next_id, movie_id, FetchAttrs(answer), t)
        unchanged == [result |-> {}, store |-> store, next_id |-> next_id,
                      memo |-> memo]
    IN  IF cached # {}
        THEN [unchanged EXCEPT !.result = {CHOOSE r \in cached : TRUE}]
        ELSE IF answer = 0 \/ RowsFor(store, movie_id) # {}
        THEN unchanged
        ELSE [result |-> {new_cache}, store |-> store \cup {new_cache},
              next_id |-> next_id + 1, memo |-> DictPop(memo, movie_id)]

\* recommendation_service.py:535-541  the composite score of a candidate:
\* 0.7 * Jaccard + 0.2 * vote_average / 10 + 0.1 * min(popularity, 100) / 100
\* rounded to 3 places
GenreScore(target_genres, movie) ==
    LET overlap == Cardinality(target_genres \cap GenreSet(movie))
        union == Cardinality(target_genres \cup GenreSet(movie))
    IN  (1400 * overlap + union) \div (2 * union)
        + 2 * movie.vote_average + Min(movie.popularity, 100)

\* a recommendation of get_similar_movies: it has no 'id' key
ContentRec(movie, score) ==
    [id |-> 0, tmdb_id |-> movie.tmdb_id, similarity_score |-> score]

RECURSIVE ScoredMovies(_, _)
ScoredMovies(target_genres, candidate_movies) ==
    IF candidate_movies = <<>> THEN <<>>
    ELSE LET movie == Head(candidate_movies)
             rest == ScoredMovies(target_genres, Tail(candidate_movies))
         IN  IF target_genres \cap GenreSet(movie) = {} THEN rest
             ELSE <<ContentRec(movie, GenreScore(target_genres, movie))>>
                  \o rest

\* recommendation_service.py:479-560
get_similar_by_genre(store, movie_id, limit) ==
    LET target == RowsFor(store, movie_id)
    IN  IF target = {} \/ \E m \in target : ~ IsList(m.genres) THEN <<>>
        ELSE LET target_genres == GenreSet(CHOOSE m \in target : TRUE)
                 candidate_movies ==
                     SeqById({m \in store : m.tmdb_id # movie_id
                                            /\ IsList(m.genres)})
             IN  Take(SortDesc(ScoredMovies(target_genres, candidate_movies),
                               "similarity_score"), limit)

\* recommendation_service.py:413-431  the candidates of the KNN search
SimilarPool(store, target_movie) ==
    LET candidates ==
            Take(OrderByPopularity(
                     {m \in store : /\ m.tmdb_id # target_movie.tmdb_id
                                    /\ IsList(m.genres)
                                    /\ m.vote_average >= SIMILAR_MIN_RATING}),
                 SIMILAR_MAX_CANDIDATES)
    IN  {m \in Range(candidates) :
            GenreSet(m) \cap GenreSet(target_movie) # {}}

\* recommendation_service.py:447-477  sklearn's NearestNeighbors is outside
\* the program: it returns n_neighbors of the candidates, each at a cosine
\* distance in [0, 1] (the vectors have no negative entry); the results are
\* sorted by similarity.  KnnLevels are the similarities taken.
KnnLevels == {0, 500, 1000}

KnnResults(all_movies, limit) ==
    LET n_neighbors == Min(limit + 1, Cardinality(all_movies))
    IN  {Take(SortDesc([i \in 1..n_neighbors |->
                           ContentRec(pick[i][1], pick[i][2])],
                       "similarity_score"), limit) :
            pick \in {p \in [1..n_neighbors -> all_movies \X KnnLevels] :
                        \A i, j \in 1..n_neighbors :
                            i # j => p[i][1] # p[j][1]}}

\* the KNN branch taken for every fetched target when use_knn is set
UsesKnnAlways(store, target, use_knn) ==
    /\ target # {}
    /\ use_knn

\* recommendation_service.py:369-477 after the target was fetched: whether
\* the KNN branch is taken
UsesKnn(store, target, use_knn) ==
    /\ target # {}
    /\ \E m \in target :
          /\ GenreSet(m) # {}
          /\ ~ (Cardinality(SimilarPool(store, m)) < MIN_CACHE_SIZE
                \/ ~ use_knn)

\* recommendation_service.py:369-477  every list get_similar_movies can
\* return, target being what fetch_and_cache_movie returned
get_similar_movies(store, target, movie_id, limit, use_knn) ==
    IF target = {} THEN {<<>>}
    ELSE IF UsesKnn(store, target, use_knn)
    THEN KnnResults(SimilarPool(store, CHOOSE m \in target : TRUE), limit)
    ELSE {get_similar_by_genre(store, movie_id, limit)}

\* recommendation_service.py:441-444  the memo after _get_feature_vector
\* was called on every row of rows
MemoWith(memo, rows) ==
    [k \in (DOMAIN memo) \cup {m.tmdb_id : m \in rows} |->
        IF k \in DOMAIN memo THEN memo[k]
        ELSE create_feature_vector(CHOOSE m \in rows : m.tmdb_id = k)]

\* a recommendation of get_collaborative_recommendations
CollabRec(movie, predicted_rating) ==
    [id |-> movie.id, tmdb_id |-> movie.tmdb_id,
     predicted_rating |-> predicted_rating]

\* collaborative_service.py:232-241  the candidates: the rows whose primary
\* key is not the movie_id of a rating of the user
CandidateMovies(store, rs, user_id) ==
    LET rated_movie_ids == {r.movie_id : r \in {q \in rs : q.user_id = user_id}}
    IN  Take(OrderByPopularity({m \in store : m.id \notin rated_movie_ids}),
             MAX_CANDIDATE_MOVIES)

CandidateIds(candidate_movies) ==
    [i \in 1..Len(candidate_movies) |-> candidate_movies[i].id]

\* collaborative_service.py:259-275  release_date is a String column
\* (movie_cache.py:39): release_date.isoformat() raises AttributeError for
\* a non-empty one
RECURSIVE Recommendations(_, _)
Recommendations(predictions, candidate_movies) ==
    IF predictions = <<>> THEN <<>>
    ELSE LET p == Head(predictions)
             rest == Recommendations(Tail(predictions), candidate_movies)
             movie == CHOOSE m \in Range(candidate_movies) :
                          m.id = p.movie_id
         IN  IF p.predicted_rating >= 1000 * MIN_PREDICTED_RATING
             THEN <<CollabRec(movie, p.predicted_rating)>> \o rest
             ELSE rest

IsoformatRaises(predictions, candidate_movies) ==
    \E i \in 1..Len(predictions) :
        /\ predictions[i].predicted_rating >= 1000 * MIN_PREDICTED_RATING
        /\ \E m \in Range(candidate_movies) :
              m.id = predictions[i].movie_id /\ m.release_date # ""

\* collaborative_service.py:228-284 after predict_ratings_collaborative
\* returned res; every exception ends in the empty list (lines 282-284)
CollaborativeRecommendations(candidate_movies, res, limit) ==
    IF res.kind = "raised" \/ res.value = <<>> THEN <<>>
    ELSE IF IsoformatRaises(res.value, candidate_movies) THEN <<>>
    ELSE Take(SortDesc(Recommendations(res.value, candidate_movies),
                       "predicted_rating"), limit)

\* the least raw score in place of the greatest
MinOf(recs, f) ==
    CHOOSE x \in {recs[i][f] : i \in 1..Len(recs)} :
        \A i \in 1..Len(recs) : recs[i][f] >= x

\* recommendation_service.py:1051-1054 and :1065  the greatest raw score
MaxOf(recs, f) ==
    CHOOSE x \in {recs[i][f] : i \in 1..Len(recs)} :
        \A i \in 1..Len(recs) : recs[i][f] <= x

\* recommendation_service.py:1055-1061 and :1066-1071
Normalize(score, max_score) ==
    IF max_score > 0 THEN (1000 * score) \div max_score ELSE 0

\* rec.get('id') or rec.get('tmdb_id')
MovieKey(rec) == IF rec.id # 0 THEN rec.id ELSE rec.tmdb_id

Keys(items) == {MovieKey(items[i]) : i \in 1..Len(items)}

\* movie_scores[movie_key] = item: a dict keeps the place of a key it holds
DictSet(items, item) ==
    IF MovieKey(item) \in Keys(items)
    THEN [i \in 1..Len(items) |->
             IF MovieKey(items[i]) = MovieKey(item) THEN item ELSE items[i]]
    ELSE Append(items, item)

\* recommendation_service.py:1077-1093
RECURSIVE AddContent(_, _, _)
AddContent(items, content_recs, max_content) ==
    IF content_recs = <<>> THEN items
    ELSE LET rec == Head(content_recs)
             content_score == Normalize(rec.similarity_score, max_content)
         IN  AddContent(
                 DictSet(items,
                     [id |-> rec.id, tmdb_id |-> rec.tmdb_id,
                      content_score |-> content_score, collab_score |-> 0,
                      hybrid_score |-> HYBRID_CONTENT_WEIGHT * content_score]),
                 Tail(content_recs), max_content)

\* recommendation_service.py:1096-1118  a key that a content item holds has
\* the collaborative score added to that item
RECURSIVE AddCollab(_, _, _)
AddCollab(items, collab_recs, max_collab) ==
    IF collab_recs = <<>> THEN items
    ELSE LET rec == Head(collab_recs)
             collab_score == Normalize(rec.predicted_rating, max_collab)
             added == HYBRID_COLLABORATIVE_WEIGHT * collab_score
             next == IF MovieKey(rec) \in Keys(items)
                     THEN [i \in 1..Len(items) |->
                              IF MovieKey(items[i]) = MovieKey(rec)
                              THEN [items[i] EXCEPT
                                       !.collab_score = collab_score,
                                       !.hybrid_score = @ + added]
                              ELSE items[i]]
                     ELSE Append(items,
                              [id |-> rec.id, tmdb_id |-> rec.tmdb_id,
                               content_score |-> 0,
                               collab_score |-> collab_score,
                               hybrid_score |-> added])
         IN  AddCollab(next, Tail(collab_recs), max_collab)

\* recommendation_service.py:1131-1141  the loop over the sorted results
RECURSIVE FinalResults(_, _, _, _)
FinalResults(results, final_results, user_rated_movie_ids, limit) ==
    IF results = <<>> \/ Len(final_results) >= limit THEN final_results
    ELSE LET rec == Head(results)
         IN  IF /\ MovieKey(rec) # 0
                /\ MovieKey(rec) \notin Keys(final_results)
                /\ MovieKey(rec) \notin user_rated_movie_ids
             THEN FinalResults(Tail(results), Append(final_results, rec),
                               user_rated_movie_ids, limit)
             ELSE FinalResults(Tail(results), final_results,
                               user_rated_movie_ids, limit)

\* the backfill with .limit(limit) in place of
\* .limit(limit - len(final_results))
PopularFallbackWhole(store, final_results, user_rated_movie_ids, limit) ==
    LET popular_fallback ==
            Take(OrderByPopularity(
                     {m \in store :
                         /\ m.vote_average >= POPULAR_MIN_RATING
                         /\ m.tmdb_id \notin
                               (user_rated_movie_ids \cup Keys(final_results))}),
                 limit)
    IN  [i \in 1..Len(popular_fallback) |->
            [id |-> popular_fallback[i].id,
             tmdb_id |-> popular_fallback[i].tmdb_id,
             content_score |-> FALLBACK_CONTENT_SCORE, collab_score |-> 0,
             hybrid_score |-> FALLBACK_HYBRID_SCORE]]

\* recommendation_service.py:1144-1166  the popular rows appended when the
\* list is shorter than limit
PopularFallback(store, final_results, user_rated_movie_ids, limit) ==
    LET popular_fallback ==
            Take(OrderByPopularity(
                     {m \in store :
                         /\ m.vote_average >= POPULAR_MIN_RATING
                         /\ m.tmdb_id \notin
                               (user_rated_movie_ids \cup Keys(final_results))}),
                 limit - Len(final_results))
    IN  [i \in 1..Len(popular_fallback) |->
            [id |-> popular_fallback[i].id,
             tmdb_id |-> popular_fallback[i].tmdb_id,
             content_score |-> FALLBACK_CONTENT_SCORE, collab_score |-> 0,
             hybrid_score |-> FALLBACK_HYBRID_SCORE]]

\* recommendation_service.py:1048-1173  steps 3 to 5 and the fallback
HybridResults(store, rs, user_id, content_recs, collab_recs, limit) ==
    LET max_content == IF content_recs = <<>> THEN 0
                       ELSE MaxOf(content_recs, "similarity_score")
        max_collab == IF collab_recs = <<>> THEN 0
                      ELSE MaxOf(collab_recs, "predicted_rating")
        movie_scores == AddCollab(AddContent(<<>>, content_recs, max_content),
                                  collab_recs, max_collab)
        results == SortDesc(movie_scores, "hybrid_score")
        user_rated_movie_ids ==
            {r.movie_id : r \in {q \in rs : q.user_id = user_id}}
        final_results == FinalResults(results, <<>>, user_rated_movie_ids,
                                      limit)
    IN  IF Len(final_results) < limit
        THEN final_results \o PopularFallback(store, final_results,
                                  user_rated_movie_ids, limit)
        ELSE final_results

\* recommendation_service.py:1000-1018  the movie_id of the first of the
\* user's ratings in descending order of rating: a rating of the greatest
\* value (which of several equal ones the query puts first is the
\* database's choice)
SeedIds(rs, user_id) ==
    LET user_ratings == {r \in rs : r.user_id = user_id}
    IN  {r.movie_id : r \in {q \in user_ratings :
                        \A p \in user_ratings : p.rating <= q.rating}}

\* recommendation_service.py:958-1181.  movie_id 0 is None.  seed is the id
\* handed to get_similar_movies, 0 when it is not called.  With no movie_id
\* and no content recommendation, line 1024 reads MovieCache.vote_count,
\* which the model class does not have: the AttributeError is handled at
\* lines 1175-1181 and the call returns [].
get_hybrid_recommendations(user_id, movie_id, limit, answer) ==
    /\ out = IdleOut
    /\ \E seed \in IF movie_id # 0 THEN {movie_id}
                   ELSE IF SeedIds(ratings, user_id) = {} THEN {0}
                   ELSE SeedIds(ratings, user_id) :
       LET fetched == IF seed = 0
                      THEN [result |-> {}, store |-> movie_cache,
                            next_id |-> next_cache_id,
                            memo |-> FEATURE_VECTOR_CACHE]
                      ELSE FetchAndCache(movie_cache, next_cache_id,
                               FEATURE_VECTOR_CACHE, seed, now, answer)
           knn == UsesKnn(fetched.store, fetched.result, TRUE)
           candidate_movies == CandidateMovies(fetched.store, ratings, user_id)
           built == BuildUserItemMatrix(user_item_matrix_cache,
                        cache_timestamp, ratings, now, FALSE)
       IN  /\ fetched.next_id <= MaxMovies + 2
           /\ movie_cache' = fetched.store
           /\ next_cache_id' = fetched.next_id
           /\ FEATURE_VECTOR_CACHE' =
                  IF knn
                  THEN MemoWith(fetched.memo, fetched.result \cup
                           SimilarPool(fetched.store,
                                       CHOOSE m \in fetched.result : TRUE))
                  ELSE fetched.memo
           /\ \E content_recs \in get_similar_movies(fetched.store,
                                     fetched.result, seed, limit * 2, TRUE) :
                 IF movie_id = 0 /\ content_recs = <<>>
                 THEN /\ out' = [IdleOut EXCEPT !.op = "hybrid",
                                    !.user_id = user_id,
                                    !.movie_id = movie_id, !.seed = seed,
                                    !.limit = limit,
                                    !.kind = "ok"]
                      /\ UNCHANGED <<user_item_matrix_cache, cache_timestamp>>
                 ELSE /\ IF candidate_movies = <<>>
                         THEN UNCHANGED <<user_item_matrix_cache,
                                          cache_timestamp>>
                         ELSE /\ user_item_matrix_cache' = built.cache
                              /\ cache_timestamp' = built.timestamp
                      /\ \E res \in IF candidate_movies = <<>>
                                    THEN {[kind |-> "ok", value |-> <<>>]}
                                    ELSE PredictRatings(built, user_id,
                                             CandidateIds(candidate_movies),
                                             DEFAULT_K_NEIGHBORS) :
                            out' = [IdleOut EXCEPT !.op = "hybrid",
                                       !.user_id = user_id,
                                       !.movie_id = movie_id, !.seed = seed,
                                       !.limit = limit, !.kind = "ok",
                                       !.value = HybridResults(fetched.store,
                                           ratings, user_id, content_recs,
                                           CollaborativeRecommendations(
                                               candidate_movies, res,
                                               limit * 2),
                                           limit)]
    /\ UNCHANGED <<now, fetch, job, movies, next_movie_id, ratings, build,
                   clear,
                   MOOD_BASE_CACHE,
                   cleanup, authVars,
                   _cache_store>>

\* recommendation_service.py:1175-1181 with a movie_id: an exception raised
\* in the try block after steps 1 and 2 (the database failing the query of
\* line 1126) is handled by returning get_similar_movies(db, movie_id,
\* limit).  The row fetched in step 1 is fresh, so the second call finds it
\* in the cache; a provider that failed in step 1 fails again.
get_hybrid_recommendations_except(user_id, movie_id, limit, answer) ==
    /\ out = IdleOut
    /\ movie_id # 0
    /\ LET fetched == FetchAndCache(movie_cache, next_cache_id,
                           FEATURE_VECTOR_CACHE, movie_id, now, answer)
           knn == UsesKnn(fetched.store, fetched.result, TRUE)
           candidate_movies == CandidateMovies(fetched.store, ratings, user_id)
           built == BuildUserItemMatrix(user_item_matrix_cache,
                        cache_timestamp, ratings, now, FALSE)
       IN  /\ fetched.next_id <= MaxMovies + 2
           /\ movie_cache' = fetched.store
           /\ next_cache_id' = fetched.next_id
           /\ FEATURE_VECTOR_CACHE' =
                  IF knn
                  THEN MemoWith(fetched.memo, fetched.result \cup
                           SimilarPool(fetched.store,
                                       CHOOSE m \in fetched.result : TRUE))
                  ELSE fetched.memo
           /\ IF candidate_movies = <<>>
              THEN UNCHANGED <<user_item_matrix_cache, cache_timestamp>>
              ELSE /\ user_item_matrix_cache' = built.cache
                   /\ cache_timestamp' = built.timestamp
           /\ \E recs \in get_similar_movies(fetched.store, fetched.result,
                                              movie_id, limit, TRUE) :
                 out' = [IdleOut EXCEPT !.op = "hybrid_except",
                            !.user_id = user_id, !.movie_id = movie_id,
                            !.limit = limit, !.kind = "ok", !.value = recs]
    /\ UNCHANGED <<now, fetch, job, movies, next_movie_id, ratings, build,
                   clear,
                   MOOD_BASE_CACHE,
                   cleanup, authVars,
                   _cache_store>>

(***************************************************************************)
(* RecommendationService.get_mood_based_recommendations and                *)
(* _get_mood_base_scores: recommendation_service.py:64-123 and 686-956.    *)
(* A mood_score is in thousandths.  MOOD_BASE_CACHE maps a mood to its     *)
(* memo entry [timestamp, signature, data].                                *)
(***************************************************************************)
MOOD_CACHE_TTL_SECONDS == 900
MOOD_MIN_RATING == 60
MOOD_MAX_CANDIDATES == 800
\* line 826: max(5.5, min_rating_for_mood - 0.5)
MOOD_FALLBACK_FLOOR == 55
MOOD_FALLBACK_STEP == 5
\* line 857: mood_score 0.5 of a fallback item
MOOD_FALLBACK_SCORE == 500

MoodNames == {"happy", "sad", "excited", "relaxed", "scared", "thoughtful",
              "romantic"}

\* recommendation_service.py:64-107
MOOD_TO_GENRES(mood) ==
    CASE mood = "happy" ->
           [include |-> <<35, 10751, 16, 10402>>, exclude |-> <<27, 53, 80>>,
            keywords_boost |-> <<"feel-good", "friendship", "hope",
                                 "celebration", "fun", "comedy">>,
            keywords_penalty |-> <<"dark", "death", "murder", "violence",
                                   "tragedy">>]
      [] mood = "sad" ->
           [include |-> <<18, 10749>>, exclude |-> <<35, 28, 27>>,
            keywords_boost |-> <<"loss", "tragedy", "emotional",
                                 "tear-jerker", "heartbreak", "melancholy">>,
            keywords_penalty |-> <<"comedy", "action", "superhero",
                                   "adventure">>]
      [] mood = "excited" ->
           [include |-> <<28, 12, 878, 14>>, exclude |-> <<10749, 99>>,
            keywords_boost |-> <<"action", "adventure", "epic", "battle",
                                 "superhero", "chase", "explosion">>,
            keywords_penalty |-> <<"slow-paced", "romantic", "quiet",
                                   "documentary">>]
      [] mood = "relaxed" ->
           [include |-> <<35, 10751, 16>>, exclude |-> <<27, 53, 10752>>,
            keywords_boost |-> <<"light-hearted", "easy-watching",
                                 "feel-good", "gentle", "peaceful">>,
            keywords_penalty |-> <<"intense", "dark", "violent",
                                   "disturbing">>]
      [] mood = "scared" ->
           [include |-> <<27, 53>>, exclude |-> <<35, 10751, 16>>,
            keywords_boost |-> <<"horror", "suspense", "terror", "scary",
                                 "psychological", "thriller">>,
            keywords_penalty |-> <<"comedy", "family-friendly",
                                   "light-hearted">>]
      [] mood = "thoughtful" ->
           [include |-> <<18, 9648, 36, 99, 878>>, exclude |-> <<35, 27>>,
            keywords_boost |-> <<"thought-provoking", "philosophical",
                                 "complex", "intelligent", "mystery">>,
            keywords_penalty |-> <<"mindless", "simple", "comedy",
                                   "slasher">>]
      [] mood = "romantic" ->
           [include |-> <<10749, 35, 18>>, exclude |-> <<27, 28, 10752>>,
            keywords_boost |-> <<"romance", "love", "relationship",
                                 "heartwarming", "couple">>,
            keywords_penalty |-> <<"horror", "violence", "war",
                                   "action-packed">>]

\* lines 741-743
MinRatingForMood(mood) ==
    IF mood \in {"sad", "thoughtful", "romantic"}
    THEN MOOD_MIN_RATING + 5 ELSE MOOD_MIN_RATING

\* kw in mk (Python substring test) for the keyword names the rows hold
IsSubstring(kw, mk) ==
    \/ kw = mk
    \/ <<kw, mk>> \in {<<"comedy", "dark comedy">>,
                       <<"horror", "horror comedy">>,
                       <<"comedy", "horror comedy">>}

\* lines 909-923  keyword_boost in tenths
KeywordBoost(movie, boost_keywords, penalty_keywords) ==
    LET keywords_value ==
            IF IsNameList(movie.keyword_names) /\ movie.keyword_names # <<>>
            THEN movie.keyword_names
            ELSE <<>>
        hit(kw) == \E i \in 1..Len(keywords_value) :
                      IsSubstring(kw, keywords_value[i])
        boosts == Cardinality({i \in 1..Len(boost_keywords) :
                                  hit(boost_keywords[i])})
        penalties == Cardinality({i \in 1..Len(penalty_keywords) :
                                     hit(penalty_keywords[i])})
        keyword_boost == 10 + 3 * boosts - 4 * penalties
    IN  IF keyword_boost < 1 THEN 1 ELSE keyword_boost

\* lines 906-930  base_score = genre_score * keyword_boost * rating_boost *
\* popularity_boost, rounded to 3 places
MoodBaseScore(movie, preferred_genres, boost_keywords, penalty_keywords) ==
    LET genre_overlap == Cardinality(GenreSet(movie) \cap preferred_genres)
        num == genre_overlap
               * KeywordBoost(movie, boost_keywords, penalty_keywords)
               * (100 + movie.vote_average) * (5000 + movie.popularity)
        den == Cardinality(preferred_genres) * 5000
    IN  (2 * num + den) \div (2 * den)

\* the dict of a movie in a mood list
MoodRec(movie, mood_score, genre_overlap) ==
    [tmdb_id |-> movie.tmdb_id, vote_average |-> movie.vote_average,
     popularity |-> movie.popularity, release_date |-> movie.release_date,
     genres |-> movie.genres, mood_score |-> mood_score,
     genre_overlap |-> genre_overlap]

\* lines 886-946  the loop over the candidates
RECURSIVE MoodScored(_, _, _, _, _, _)
MoodScored(mood, candidate_movies, preferred_genres, excluded_genres_set, boost_keywords, penalty_keywords) ==
    IF candidate_movies = <<>> THEN <<>>
    ELSE LET movie == Head(candidate_movies)
             rest == MoodScored(mood, Tail(candidate_movies),
                                preferred_genres, excluded_genres_set,
                                boost_keywords, penalty_keywords)
         IN  IF \/ movie.vote_average < MOOD_MIN_RATING
                \/ GenreSet(movie) = {}
                \/ (mood = "romantic" /\ 10749 \notin GenreSet(movie))
                \/ GenreSet(movie) \cap excluded_genres_set # {}
                \/ GenreSet(movie) \cap preferred_genres = {}
             THEN rest
             ELSE <<MoodRec(movie,
                        MoodBaseScore(movie, preferred_genres,
                                      boost_keywords, penalty_keywords),
                        Cardinality(GenreSet(movie) \cap preferred_genres))>>
                  \o rest

\* lines 874-882  whether the memo entry of the mood is served
MoodCacheHit(memo, mood, candidate_signature, t) ==
    /\ mood \in DOMAIN memo
    /\ memo[mood].signature = candidate_signature
    /\ t - memo[mood].timestamp < MOOD_CACHE_TTL_SECONDS

\* lines 864-956  _get_mood_base_scores: the list returned and the memo left
GetMoodBaseScores(memo, mood, candidate_movies, preferred_genres, excluded_genres_set, boost_keywords, penalty_keywords, candidate_signature, t) ==
    IF MoodCacheHit(memo, mood, candidate_signature, t)
    THEN [data |-> memo[mood].data, memo |-> memo]
    ELSE LET scored_movies ==
                 SortDesc(MoodScored(mood, candidate_movies, preferred_genres,
                                     excluded_genres_set, boost_keywords,
                                     penalty_keywords), "mood_score")
         IN  [data |-> scored_movies,
              memo |-> [m \in DOMAIN memo \cup {mood} |->
                           IF m = mood
                           THEN [timestamp |-> t,
                                 signature |-> candidate_signature,
                                 data |-> scored_movies]
                           ELSE memo[m]]]

\* movie['release_date'][:4] if movie['release_date'] else 'unknown'
Year(release_date) ==
    CASE release_date = "" -> "unknown"
      [] release_date = "2020-05-01" -> "2020"
      [] release_date = "2020-07-09" -> "2020"
      [] release_date = "2019-01-01" -> "2019"
      [] OTHER -> release_date

\* movie['genres'][0] if movie['genres'] else None (0 is None)
PrimaryGenre(rec) ==
    IF IsList(rec.genres) /\ rec.genres # <<>> THEN rec.genres[1] ELSE 0

\* lines 768-782  the score of an entry for a user who has ratings: the sum
\* and the number of the ratings give the average
Personalized(rec, rating_sum, rating_count) ==
    LET diff == rec.vote_average * rating_count - 10 * rating_sum
        rating_diff == IF diff < 0 THEN 0 - diff ELSE diff
    IN  IF rating_count = 0 THEN rec
        ELSE IF rating_diff < 15 * rating_count
        THEN [rec EXCEPT !.mood_score = (13 * @ + 5) \div 10]
        ELSE IF rating_diff > 30 * rating_count
        THEN [rec EXCEPT !.mood_score = (8 * @ + 5) \div 10]
        ELSE rec

\* lines 768-784
RECURSIVE MoodPersonal(_, _, _, _)
MoodPersonal(base_scores, rated_movie_ids, rating_sum, rating_count) ==
    IF base_scores = <<>> THEN <<>>
    ELSE LET rest == MoodPersonal(Tail(base_scores), rated_movie_ids,
                                  rating_sum, rating_count)
         IN  IF Head(base_scores).tmdb_id \in rated_movie_ids THEN rest
             ELSE <<Personalized(Head(base_scores), rating_sum,
                                 rating_count)>> \o rest

\* lines 788-815  at most two entries of one year and primary genre
RECURSIVE Diverse(_, _, _)
Diverse(scored_movies, diverse_results, limit) ==
    IF scored_movies = <<>> \/ Len(diverse_results) >= limit
    THEN diverse_results
    ELSE LET movie == Head(scored_movies)
             same_combo_count ==
                 Cardinality({i \in 1..Len(diverse_results) :
                     /\ Year(diverse_results[i].release_date)
                           = Year(movie.release_date)
                     /\ PrimaryGenre(diverse_results[i])
                           = PrimaryGenre(movie)})
         IN  IF diverse_results # <<>> /\ same_combo_count >= 2
             THEN Diverse(Tail(scored_movies), diverse_results, limit)
             ELSE Diverse(Tail(scored_movies),
                          Append(diverse_results, movie), limit)

\* lines 834-859  the loop over the rows of the relaxed query
RECURSIVE MoodFallback(_, _, _, _, _)
MoodFallback(fallback_movies, diverse_results, preferred_genres, excluded_genres, limit) ==
    IF fallback_movies = <<>> \/ Len(diverse_results) >= limit
    THEN diverse_results
    ELSE LET movie == Head(fallback_movies)
         IN  IF \/ GenreSet(movie) \cap preferred_genres = {}
                \/ GenreSet(movie) \cap excluded_genres # {}
             THEN MoodFallback(Tail(fallback_movies), diverse_results,
                               preferred_genres, excluded_genres, limit)
             ELSE MoodFallback(Tail(fallback_movies),
                      Append(diverse_results,
                             MoodRec(movie, MOOD_FALLBACK_SCORE,
                                 Cardinality(GenreSet(movie)
                                                \cap preferred_genres))),
                      preferred_genres, excluded_genres, limit)

\* lines 686-862  the list returned for the rows of store and the ratings
\* rs, given the base scores
MoodResults(store, rs, user_id, mood, base_scores, limit) ==
    LET user_ratings == {r \in rs : r.user_id = user_id}
        rated_movie_ids == {r.movie_id : r \in user_ratings}
        rating_sum == SumOver([r \in user_ratings |-> r.rating], user_ratings)
        preferred_genres == Range(MOOD_TO_GENRES(mood).include)
        excluded_genres == Range(MOOD_TO_GENRES(mood).exclude)
        scored_movies ==
            SortDesc(MoodPersonal(base_scores, rated_movie_ids, rating_sum,
                                  Cardinality(user_ratings)), "mood_score")
        diverse_results == Diverse(scored_movies, <<>>, limit)
        existing_ids == {diverse_results[i].tmdb_id :
                            i \in 1..Len(diverse_results)}
        floor == IF MOOD_FALLBACK_FLOOR
                       > MinRatingForMood(mood) - MOOD_FALLBACK_STEP
                 THEN MOOD_FALLBACK_FLOOR
                 ELSE MinRatingForMood(mood) - MOOD_FALLBACK_STEP
        fallback_movies ==
            Take(OrderByPopularity(
                     {m \in store :
                         /\ m.vote_average >= floor
                         /\ IsList(m.genres)
                         /\ m.tmdb_id \notin
                               (rated_movie_ids \cup existing_ids)}),
                 limit * 2)
    IN  IF Len(diverse_results) < limit
        THEN MoodFallback(fallback_movies, diverse_results, preferred_genres,
                          excluded_genres, limit)
        ELSE diverse_results

\* lines 745-750  the candidate rows of a mood
MoodCandidates(store, mood) ==
    Take(OrderByPopularity({m \in store :
                               /\ m.vote_average >= MinRatingForMood(mood)
                               /\ IsList(m.genres)}),
         MOOD_MAX_CANDIDATES)

\* recommendation_service.py:686-862
get_mood_based_recommendations(user_id, mood, limit) ==
    /\ out = IdleOut
    /\ mood \in MoodNames
    /\ LET candidate_movies == MoodCandidates(movie_cache, mood)
           candidate_signature ==
               {candidate_movies[i].tmdb_id : i \in 1..Len(candidate_movies)}
           base == GetMoodBaseScores(MOOD_BASE_CACHE, mood, candidate_movies,
                       Range(MOOD_TO_GENRES(mood).include),
                       Range(MOOD_TO_GENRES(mood).exclude),
                       MOOD_TO_GENRES(mood).keywords_boost,
                       MOOD_TO_GENRES(mood).keywords_penalty,
                       candidate_signature, now)
       IN  IF candidate_movies = <<>>
           THEN /\ out' = [IdleOut EXCEPT !.op = "mood", !.user_id = user_id,
                              !.limit = limit, !.kind = mood]
                /\ UNCHANGED MOOD_BASE_CACHE
           ELSE /\ MOOD_BASE_CACHE' = base.memo
                /\ out' = [IdleOut EXCEPT !.op = "mood", !.user_id = user_id,
                              !.limit = limit, !.kind = mood,
                              !.value = MoodResults(movie_cache, ratings,
                                            user_id, mood, base.data, limit)]
    /\ UNCHANGED <<movie_cache, next_cache_id, now, FEATURE_VECTOR_CACHE,
                   fetch, job, movies, next_movie_id, ratings,
                   user_item_matrix_cache, cache_timestamp, build, clear,
                   cleanup, authVars, _cache_store>>

\* recommendation_service.py:369-477 as one step: the target is fetched and
\* the list of one of the two branches is returned.  kind records the
\* branch: "knn" when the NearestNeighbors search ran, "genre" when
\* get_similar_by_genre was called, "none" when the target was not fetched.
get_similar_movies_call(movie_id, limit, use_knn, answer) ==
    /\ out = IdleOut
    /\ LET fetched == FetchAndCache(movie_cache, next_cache_id,
                          FEATURE_VECTOR_CACHE, movie_id, now, answer)
           knn == UsesKnn(fetched.store, fetched.result, use_knn)
       IN  /\ movie_cache' = fetched.store
           /\ next_cache_id' = fetched.next_id
           /\ FEATURE_VECTOR_CACHE' =
                  IF knn
                  THEN MemoWith(fetched.memo, fetched.result \cup
                           SimilarPool(fetched.store,
                                       CHOOSE m \in fetched.result : TRUE))
                  ELSE fetched.memo
           /\ \E recs \in get_similar_movies(fetched.store, fetched.result,
                                             movie_id, limit, use_knn) :
                 out' = [IdleOut EXCEPT !.op = "similar",
                            !.movie_id = movie_id, !.limit = limit,
                            !.kind = IF fetched.result = {} THEN "none"
                                     ELSE IF knn THEN "knn" ELSE "genre",
                            !.value = recs]
    /\ UNCHANGED <<now, fetch, job, movies, next_movie_id, ratings,
                   user_item_matrix_cache, cache_timestamp, build, clear,
                   MOOD_BASE_CACHE,
                   cleanup, authVars,
                   _cache_store>>

(***************************************************************************)
(* CacheStore of utils/cache.py.  The OrderedDict _cache is a sequence of   *)
(* entries, oldest first.  An Optional[int] is a sequence of at most one    *)
(* number: <<>> is None.  The fields due and used of an entry and the field *)
(* uses of the store are history: the moment ttl seconds after the set that *)
(* wrote the entry (None for ttl=None), and the number of the last          *)
(* operation that wrote or successfully read it; the code keeps only        *)
(* (value, expiry).                                                         *)
(***************************************************************************)
CacheKeys == 1..MaxKey

CacheValues == {1}

Ttls == {<<>>, <<0>>, <<1>>}

\* utils/cache.py:43-53
CacheStore(max_size) ==
    [cache |-> <<>>, max_size |-> max_size, hits |-> 0, misses |-> 0,
     uses |-> 0]

\* key in self._cache
HasKey(cache, key) == \E i \in 1..Len(cache) : cache[i].key = key

\* self._cache[key]
EntryOf(cache, key) ==
    cache[CHOOSE i \in 1..Len(cache) : cache[i].key = key]

\* del self._cache[key]
DelKey(cache, key) == SelectSeq(cache, LAMBDA e : e.key # key)

\* self._cache[key] = ...: a key already stored keeps its place
SetItem(cache, entry) ==
    IF HasKey(cache, entry.key)
    THEN [i \in 1..Len(cache) |->
             IF cache[i].key = entry.key THEN entry ELSE cache[i]]
    ELSE Append(cache, entry)

\* a read that leaves the order alone
leave_in_place(cache, key) == cache

\* OrderedDict.move_to_end(key)
move_to_end(cache, key) == Append(DelKey(cache, key), EntryOf(cache, key))

\* utils/cache.py:78-103
CacheStore_get(key) ==
    /\ _cache_store.uses < MaxOps
    /\ LET c == _cache_store.cache
           n == _cache_store.uses + 1
       IN  IF ~HasKey(c, key)
           THEN /\ _cache_store' = [_cache_store EXCEPT !.misses = @ + 1,
                                                        !.uses = n]
                /\ out' = [IdleOut EXCEPT !.op = "get", !.key = key,
                                          !.kind = "miss"]
           ELSE LET e == EntryOf(c, key) IN
                IF e.expiry # <<>> /\ now > e.expiry[1]
                THEN /\ _cache_store' =
                            [_cache_store EXCEPT !.cache = DelKey(c, key),
                                                 !.misses = @ + 1,
                                                 !.uses = n]
                     /\ out' = [IdleOut EXCEPT !.op = "get", !.key = key,
                                               !.kind = "miss"]
                ELSE /\ _cache_store' =
                            [_cache_store EXCEPT
                                !.cache = move_to_end(
                                    SetItem(c, [e EXCEPT !.used = n]), key),
                                !.hits = @ + 1,
                                !.uses = n]
                     /\ out' = [IdleOut EXCEPT !.op = "get", !.key = key,
                                               !.kind = "hit",
                                               !.value = <<e.value>>]
    /\ UNCHANGED <<movie_cache, next_cache_id, now, FEATURE_VECTOR_CACHE,
                   fetch, job, movies, next_movie_id, ratings,
                   user_item_matrix_cache, cache_timestamp, build, clear,
                   MOOD_BASE_CACHE, cleanup, authVars>>

\* utils/cache.py:105-125; "if ttl" is false for None and for 0.  value is
\* the key of the "Evicted cache key" log line, if there is one
CacheStore_set(key, value, ttl) ==
    /\ _cache_store.uses < MaxOps
    /\ LET c == _cache_store.cache
           n == _cache_store.uses + 1
           expiry == IF ttl # <<>> /\ ttl[1] # 0 THEN <<now + ttl[1]>>
                     ELSE <<>>
           entry == [key |-> key, value |-> value, expiry |-> expiry,
                     due |-> IF ttl # <<>> THEN <<now + ttl[1]>> ELSE <<>>,
                     used |-> n]
           added == move_to_end(SetItem(c, entry), key)
       IN  /\ _cache_store' =
                  [_cache_store EXCEPT
                      !.cache = IF Len(added) > _cache_store.max_size
                                THEN Tail(added) ELSE added,
                      !.uses = n]
           /\ out' = [IdleOut EXCEPT
                         !.op = "set", !.key = key,
                         !.value = IF Len(added) > _cache_store.max_size
                                   THEN <<added[1].key>> ELSE <<>>]
    /\ UNCHANGED <<movie_cache, next_cache_id, now, FEATURE_VECTOR_CACHE,
                   fetch, job, movies, next_movie_id, ratings,
                   user_item_matrix_cache, cache_timestamp, build, clear,
                   MOOD_BASE_CACHE, cleanup, authVars>>

\* utils/cache.py:127-130
CacheStore_delete(key) ==
    /\ _cache_store.uses < MaxOps
    /\ _cache_store' = [_cache_store EXCEPT
                           !.cache = DelKey(_cache_store.cache, key),
                           !.uses = @ + 1]
    /\ out' = [IdleOut EXCEPT !.op = "delete", !.key = key]
    /\ UNCHANGED <<movie_cache, next_cache_id, now, FEATURE_VECTOR_CACHE,
                   fetch, job, movies, next_movie_id, ratings,
                   user_item_matrix_cache, cache_timestamp, build, clear,
                   MOOD_BASE_CACHE, cleanup, authVars>>

\* utils/cache.py:132-137
CacheStore_clear ==
    /\ _cache_store.uses < MaxOps
    /\ _cache_store' = [_cache_store EXCEPT !.cache = <<>>, !.hits = 0,
                                            !.misses = 0, !.uses = @ + 1]
    /\ out' = [IdleOut EXCEPT !.op = "clear"]
    /\ UNCHANGED <<movie_cache, next_cache_id, now, FEATURE_VECTOR_CACHE,
                   fetch, job, movies, next_movie_id, ratings,
                   user_item_matrix_cache, cache_timestamp, build, clear,
                   MOOD_BASE_CACHE, cleanup, authVars>>

\* datetime.now() moves on by one second
CacheTick ==
    /\ now < MaxClock
    /\ now' = now + 1
    /\ UNCHANGED cfVars
    /\ UNCHANGED <<movie_cache, next_cache_id, FEATURE_VECTOR_CACHE, fetch,
                   job>>

\* time passes, by d days
TickSteps == {6, 25}

Tick(d) ==
    /\ now + d * DAY <= MaxTime * DAY
    /\ now' = now + d * DAY
    /\ UNCHANGED cfVars
    /\ UNCHANGED <<movie_cache, next_cache_id, FEATURE_VECTOR_CACHE, fetch,
                   job>>

InitCache ==
    /\ movie_cache = {}
    /\ next_cache_id = 1
    /\ now = 0
    /\ FEATURE_VECTOR_CACHE = <<>>
    /\ fetch = [w \in Workers |-> IdleFetch]
    /\ job = IdleJob
    /\ movies = {}
    /\ next_movie_id = 1
    /\ ratings = {}
    /\ user_item_matrix_cache = {}
    /\ cache_timestamp = NoTime
    /\ build = [w \in Workers |-> IdleBuild]
    /\ clear = "idle"
    /\ MOOD_BASE_CACHE = <<>>
    /\ cleanup = IdleCleanup
    /\ password_reset_tokens = {}
    /\ users = NoUsers
    /\ next_token_id = 1
    /\ reset = [w \in Workers |-> IdleReset]
    /\ _cache_store = CacheStore(1000)
    /\ out = IdleOut

FetchSteps ==
    \/ \E w \in Workers, movie_id \in TmdbIds : FetchStart(w, movie_id)
    \/ \E w \in Workers, n \in {1, 2} : FetchProviderFails(w, n)
    \/ \E w \in Workers, v \in Versions : FetchStore(w, v)
    \/ \E w \in Workers : FetchReturn(w)

\* concurrent requests, the cleanup job and the clock
NextFetch ==
    \/ FetchSteps
    \/ cleanup_old_cache
    \/ \E d \in TickSteps : Tick(d)

SpecFetch == InitCache /\ [][NextFetch]_vars

\* the writers of one external id: one request worker, the trending job and
\* the cleanup job, and the feature-vector memo
SharedIds == {1}

NextStore ==
    \/ \E movie_id \in SharedIds : FetchStart(1, movie_id)
    \/ \E n \in {1, 2} : FetchProviderFails(1, n)
    \/ \E v \in Versions : FetchStore(1, v)
    \/ FetchReturn(1)
    \/ \E list \in ItemLists(SharedIds) : JobStart(list)
    \/ JobProviderFails
    \/ \E movie_data \in job.items : JobStep(movie_data)
    \/ JobCommit
    \/ JobReturn
    \/ cleanup_old_cache
    \/ \E movie \in movie_cache : GetFeatureVector(movie)
    \/ \E d \in TickSteps : Tick(d)

SpecStore == InitCache /\ [][NextStore]_vars

\* the tables hold the catalogue and the other users' ratings
InitCatalog ==
    /\ movie_cache = {CatalogRow(t) : t \in CatalogIds}
    /\ next_cache_id = MaxMovies + 1
    /\ now = 0
    /\ FEATURE_VECTOR_CACHE = <<>>
    /\ fetch = [w \in Workers |-> IdleFetch]
    /\ job = IdleJob
    /\ movies = {[id |-> MovieIdOf(t), tmdb_id |-> t] : t \in CatalogIds}
    /\ next_movie_id = MaxMovies + 1
    /\ ratings = CatalogRatings
    /\ user_item_matrix_cache = {}
    /\ cache_timestamp = NoTime
    /\ build = [w \in Workers |-> IdleBuild]
    /\ clear = "idle"
    /\ MOOD_BASE_CACHE = <<>>
    /\ cleanup = IdleCleanup
    /\ password_reset_tokens = {}
    /\ users = NoUsers
    /\ next_token_id = 1
    /\ reset = [w \in Workers |-> IdleReset]
    /\ _cache_store = CacheStore(1000)
    /\ out = IdleOut

\* the requests of user 1: ratings of the first MaxRated movies of the
\* catalogue and of a movie not stored yet
RatedIds == (1..MaxRated) \cup {MaxMovies + 1}
RatingValues == {8}
Answers == {0} \cup Versions
AllMovieIds == [i \in 1..(MaxMovies + 1) |-> i]

\* rating requests and predictions, one at a time
NextCF ==
    \/ \E tmdb_id \in RatedIds, rating \in RatingValues, answer \in Answers :
          add_or_update_rating(1, tmdb_id, rating, answer)
    \/ \E movie_id \in 1..(MaxMovies + 1) : delete_rating(1, movie_id)
    \/ \E user_id \in Users, k \in {1, DEFAULT_K_NEIGHBORS} :
          predict_ratings_collaborative(user_id, AllMovieIds, k)
    \/ TakeResult
    \/ TickSeconds(CACHE_TTL_SECONDS)

SpecCF == InitCatalog /\ [][NextCF]_vars

\* threads in build_user_item_matrix and in clear_cache while ratings change
NextRace ==
    \/ \E tmdb_id \in 1..MaxRated, rating \in RatingValues :
          add_or_update_rating(1, tmdb_id, rating, 0)
    \/ \E movie_id \in 1..(MaxMovies + 1) : delete_rating(1, movie_id)
    \/ \E w \in Workers, force_refresh \in BOOLEAN :
          BuildCall(w, force_refresh)
    \/ \E w \in Workers : BuildValid(w)
    \/ \E w \in Workers : BuildRead(w)
    \/ \E w \in Workers : BuildQuery(w)
    \/ \E w \in Workers : BuildStoreCache(w)
    \/ \E w \in Workers : BuildStamp(w)
    \/ \E w \in Workers : BuildReturn(w)
    \/ ClearMatrix
    \/ ClearTimestamp
    \/ TickSeconds(CACHE_TTL_SECONDS)

SpecRace == InitCatalog /\ [][NextRace]_vars

\* the rating requests of two users, on movies they have rated and on
\* movies they have not, with two values
RatingUsers == 1..MaxRaters

UpsertValues == {4, 9}

\* a movie every other user has rated and one that is in no table
UpsertIds == {1, MaxMovies + 1}

NextRatings ==
    \/ \E user_id \in RatingUsers, tmdb_id \in UpsertIds,
          rating \in UpsertValues, answer \in Answers :
          add_or_update_rating(user_id, tmdb_id, rating, answer)
    \/ \E movie_id \in 1..(MaxMovies + 1) : delete_rating(1, movie_id)

SpecRatings == InitCatalog /\ [][NextRatings]_vars

\* the rows of the cache the mood requests run on: horror and thriller
\* movies, one filed under comedy and one under animation as well, two
\* rated below 6.0; the first row was cached 31 days ago
MoodRow(t) ==
    LET c == t % 6
    IN  [id |-> t, tmdb_id |-> t,
         cached_at |-> IF t = 1 THEN 0 - (CACHE_RETENTION_DAYS + 1) * DAY
                       ELSE 0,
         title |-> "M",
         release_date |-> IF c \in {1, 3} THEN "2020-05-01"
                          ELSE IF c \in {2, 5} THEN "2020-07-09"
                          ELSE "2019-01-01",
         vote_average |-> CASE c = 1 -> 80 [] c = 2 -> 75 [] c = 3 -> 85
                            [] c = 4 -> 58 [] c = 5 -> 70 [] c = 0 -> 57,
         popularity |-> CASE c = 1 -> 50 [] c = 2 -> 40 [] c = 3 -> 60
                          [] c = 4 -> 20 [] c = 5 -> 30 [] c = 0 -> 10,
         genres |-> CASE c = 1 -> <<27>> [] c = 2 -> <<27, 53>>
                      [] c = 3 -> <<27, 35>> [] c = 4 -> <<53>>
                      [] c = 5 -> <<27>> [] c = 0 -> <<53, 16>>,
         keywords |-> <<>>,
         keyword_names |-> CASE c = 1 -> <<"horror">>
                             [] c = 2 -> <<"horror comedy">>
                             [] OTHER -> <<>>,
         cast |-> <<5>>, crew |-> <<9>>]

MoodIds == 1..MaxCacheKey

\* the primary key of the movies row of a tmdb id
MoodMovieIdOf(t) == MaxCacheKey + 1 - t

Moods == {"scared", "happy"}

\* user 2 has rated the second movie
InitMood ==
    /\ movie_cache = {MoodRow(t) : t \in MoodIds}
    /\ next_cache_id = MaxCacheKey + 1
    /\ now = 0
    /\ FEATURE_VECTOR_CACHE = <<>>
    /\ fetch = [w \in Workers |-> IdleFetch]
    /\ job = IdleJob
    /\ movies = {[id |-> MoodMovieIdOf(t), tmdb_id |-> t] : t \in MoodIds}
    /\ next_movie_id = MaxCacheKey + 1
    /\ ratings = {[user_id |-> 2, movie_id |-> MoodMovieIdOf(2),
                   rating |-> 9]}
    /\ user_item_matrix_cache = {}
    /\ cache_timestamp = NoTime
    /\ build = [w \in Workers |-> IdleBuild]
    /\ clear = "idle"
    /\ out = IdleOut
    /\ MOOD_BASE_CACHE = <<>>
    /\ cleanup = IdleCleanup
    /\ password_reset_tokens = {}
    /\ users = NoUsers
    /\ next_token_id = 1
    /\ reset = [w \in Workers |-> IdleReset]
    /\ _cache_store = CacheStore(1000)

\* mood requests of two users beside the cleanup job, requests that fetch
\* the first movie, and rating requests of user 1
NextMood ==
    \/ \E user_id \in RatingUsers, mood \in Moods, limit \in 1..MaxLimit :
          get_mood_based_recommendations(user_id, mood, limit)
    \/ \E answer \in {0} \cup MoodVersions :
          get_similar_movies_call(1, 1, TRUE, answer)
    \/ cleanup_old_cache
    \/ \E tmdb_id \in 1..MaxRated, rating \in RatingValues :
          add_or_update_rating(1, tmdb_id, rating, 0)
    \/ TakeResult
    \/ Tick(25)

SpecMood == InitMood /\ [][NextMood]_vars

\* a cache large enough for the KNN branch: a target with one genre, a
\* target with an empty genre list, a target with no genre list, and
\* MaxPool rows that share the genre of the first target, the first of them
\* cached 31 days ago
FirstPoolId == 4

SimilarRow(t) ==
    [id |-> t, tmdb_id |-> t,
     cached_at |-> IF t = FirstPoolId
                   THEN 0 - (CACHE_RETENTION_DAYS + 1) * DAY ELSE 0,
     title |-> "M", release_date |-> "2020",
     vote_average |-> 70, popularity |-> t,
     genres |-> IF t = 2 THEN <<>> ELSE IF t = 3 THEN Null ELSE <<28>>,
     keywords |-> <<>>, keyword_names |-> <<>>,
     cast |-> <<5>>, crew |-> <<9>>]

SimilarIds == 1..(FirstPoolId + MaxPool - 1)

InitSimilar ==
    /\ movie_cache = {SimilarRow(t) : t \in SimilarIds}
    /\ next_cache_id = FirstPoolId + MaxPool
    /\ now = 0
    /\ FEATURE_VECTOR_CACHE = <<>>
    /\ fetch = [w \in Workers |-> IdleFetch]
    /\ job = IdleJob
    /\ movies = {}
    /\ next_movie_id = 1
    /\ ratings = {}
    /\ user_item_matrix_cache = {}
    /\ cache_timestamp = NoTime
    /\ build = [w \in Workers |-> IdleBuild]
    /\ clear = "idle"
    /\ out = IdleOut
    /\ MOOD_BASE_CACHE = <<>>
    /\ cleanup = IdleCleanup
    /\ password_reset_tokens = {}
    /\ users = NoUsers
    /\ next_token_id = 1
    /\ reset = [w \in Workers |-> IdleReset]
    /\ _cache_store = CacheStore(1000)

\* requests for the three targets and for a movie that is not stored,
\* beside the cleanup job
NextSimilar ==
    \/ \E movie_id \in 1..3 \cup {FirstPoolId + MaxPool},
          use_knn \in BOOLEAN, answer \in {0, 1} :
          get_similar_movies_call(movie_id, 1, use_knn, answer)
    \/ cleanup_old_cache
    \/ TakeResult

SpecSimilar == InitSimilar /\ [][NextSimilar]_vars

(***************************************************************************)
(* Password reset: password_reset_service.py.  A raw token is the integer  *)
(* it was issued as, a password an integer; the hashes keep their          *)
(* argument.  used_at is NoTime for NULL.  A request works in its own      *)
(* session: what it writes is seen by the others when it commits.          *)
(***************************************************************************)
RESET_TOKEN_TTL_MINUTES == 30
RESET_TOKEN_MAX_ACTIVE == 3

\* password_reset_service.py:32-34
_hash_token(raw_token) == <<"sha256", raw_token>>

\* utils/security.py hash_password
hash_password(password) == <<"bcrypt", password>>

ResetEmails == {"user@example.com", "nobody@example.com"}
ResetPasswords == {1, 2}

\* the users table: one account, with the password it was created with
ResetUsers ==
    1 :> [id |-> 1, email |-> "user@example.com",
          password_hash |-> hash_password(0)]

\* password_reset_service.py:36-41  _cleanup_expired_tokens
CleanupExpiredTokens(tokens, t) == {r \in tokens : ~ (r.expires_at <= t)}

\* password_reset_service.py:60-68
ActiveTokens(tokens, user_id, t) ==
    {r \in tokens : /\ r.user_id = user_id
                    /\ r.used_at = NoTime
                    /\ r.expires_at > t}

\* a token row that is marked used when it is created
TokenRecordUsed(id, user_id, raw_token, t) ==
    [id |-> id, user_id |-> user_id, token_hash |-> _hash_token(raw_token),
     expires_at |-> t + RESET_TOKEN_TTL_MINUTES * 60, used_at |-> t]

\* password_reset_service.py:77-84  the row of a new token; the key and the
\* raw token are fresh
TokenRecord(id, user_id, raw_token, t) ==
    [id |-> id, user_id |-> user_id, token_hash |-> _hash_token(raw_token),
     expires_at |-> t + RESET_TOKEN_TTL_MINUTES * 60, used_at |-> NoTime]

\* password_reset_service.py:48-95  request_reset as one step; sent is
\* whether EmailService.send_password_reset_email returned; the
\* result holds the e-mails that were sent
request_reset(email, sent) ==
    /\ out = IdleOut
    /\ LET user == {u \in DOMAIN users : users[u].email = email}
           kept == CleanupExpiredTokens(password_reset_tokens, now)
           result(kind) == [IdleOut EXCEPT !.op = "request_reset",
                                           !.kind = kind]
       IN  IF user = {}
           THEN /\ password_reset_tokens' = kept
                /\ out' = result("none")
                /\ UNCHANGED next_token_id
           ELSE LET user_id == CHOOSE u \in user : TRUE
                IN  IF Cardinality(ActiveTokens(kept, user_id, now))
                          >= RESET_TOKEN_MAX_ACTIVE
                    THEN /\ password_reset_tokens' = kept
                         /\ out' = result("too_many")
                         /\ UNCHANGED next_token_id
                    ELSE IF ~ sent
                    THEN /\ out' = result("email_failed")
                         /\ UNCHANGED <<password_reset_tokens,
                                        next_token_id>>
                    ELSE /\ next_token_id <= MaxTokens
                         /\ password_reset_tokens' = kept \cup
                                {TokenRecord(next_token_id, user_id,
                                             next_token_id, now)}
                         /\ next_token_id' = next_token_id + 1
                         /\ out' = [result("sent") EXCEPT
                                       !.value =
                                          <<[recipient |->
                                                 users[user_id].email,
                                             token |-> next_token_id]>>]
    /\ UNCHANGED <<movie_cache, next_cache_id, now, FEATURE_VECTOR_CACHE,
                   fetch, job, movies, next_movie_id, ratings,
                   user_item_matrix_cache, cache_timestamp, build, clear,
                   MOOD_BASE_CACHE, cleanup, users, reset,
                   _cache_store>>

\* the rows with the token's hash, used ones as well
ResetRecordUsedToo(tokens, token) ==
    {r \in tokens : r.token_hash = _hash_token(token)}

\* password_reset_service.py:99-107  the unused rows with the token's hash
ResetRecord(tokens, token) ==
    {r \in tokens : r.token_hash = _hash_token(token) /\ r.used_at = NoTime}

\* password_reset_service.py:97-124  worker w reads the token's row and the
\* user, or rejects the request
reset_password_query(w, token, new_password) ==
    /\ reset[w].pc = "idle"
    /\ LET reset_record == ResetRecord(password_reset_tokens, token)
           rejected == [IdleReset EXCEPT !.pc = "done", !.token = token,
                           !.new_password = new_password,
                           !.outcome = "Invalid or expired reset token."]
       IN  IF \/ reset_record = {}
              \/ \E r \in reset_record : r.expires_at < now
           THEN reset' = [reset EXCEPT ![w] = rejected]
           ELSE IF \A r \in reset_record : r.user_id \notin DOMAIN users
           THEN reset' = [reset EXCEPT ![w] = rejected]
           ELSE reset' = [reset EXCEPT ![w] =
                            [pc |-> "write", token |-> token,
                             new_password |-> new_password,
                             reset_record |-> reset_record,
                             now |-> now, outcome |-> ""]]
    /\ UNCHANGED <<movie_cache, next_cache_id, now, FEATURE_VECTOR_CACHE,
                   fetch, job, movies, next_movie_id, ratings,
                   user_item_matrix_cache, cache_timestamp, build, clear,
                   out, MOOD_BASE_CACHE, cleanup, password_reset_tokens,
                   users, next_token_id,
                   _cache_store>>

\* password_reset_service.py:126-140  worker w writes the password, marks
\* its row used, invalidates the user's other unused tokens and commits.
\* The row is updated by primary key: when it was deleted meanwhile the
\* flush fails and nothing is written.
reset_password_commit(w) ==
    /\ reset[w].pc = "write"
    /\ LET reset_record == CHOOSE r \in reset[w].reset_record : TRUE
           user_id == reset_record.user_id
       IN  IF reset_record.id \notin {r.id : r \in password_reset_tokens}
           THEN /\ reset' = [reset EXCEPT ![w].pc = "done",
                                          ![w].outcome = "error"]
                /\ UNCHANGED <<password_reset_tokens, users>>
           ELSE /\ users' = [users EXCEPT ![user_id].password_hash =
                                hash_password(reset[w].new_password)]
                /\ password_reset_tokens' =
                       {IF r.id = reset_record.id
                        THEN [r EXCEPT !.used_at = reset[w].now]
                        ELSE IF r.user_id = user_id /\ r.used_at = NoTime
                        THEN [r EXCEPT !.used_at = now]
                        ELSE r : r \in password_reset_tokens}
                /\ reset' = [reset EXCEPT ![w].pc = "done",
                                          ![w].outcome = "ok"]
    /\ UNCHANGED <<movie_cache, next_cache_id, now, FEATURE_VECTOR_CACHE,
                   fetch, job, movies, next_movie_id, ratings,
                   user_item_matrix_cache, cache_timestamp, build, clear,
                   out, MOOD_BASE_CACHE, cleanup, next_token_id,
                   _cache_store>>

\* routes/auth.py:52-59  the response is sent
reset_password_return(w) ==
    /\ reset[w].pc = "done"
    /\ reset' = [reset EXCEPT ![w] = IdleReset]
    /\ UNCHANGED <<movie_cache, next_cache_id, now, FEATURE_VECTOR_CACHE,
                   fetch, job, movies, next_movie_id, ratings,
                   user_item_matrix_cache, cache_timestamp, build, clear,
                   out, MOOD_BASE_CACHE, cleanup, password_reset_tokens,
                   users, next_token_id,
                   _cache_store>>

\* one account and no token
InitReset ==
    /\ movie_cache = {}
    /\ next_cache_id = 1
    /\ now = 0
    /\ FEATURE_VECTOR_CACHE = <<>>
    /\ fetch = [w \in Workers |-> IdleFetch]
    /\ job = IdleJob
    /\ movies = {}
    /\ next_movie_id = 1
    /\ ratings = {}
    /\ user_item_matrix_cache = {}
    /\ cache_timestamp = NoTime
    /\ build = [w \in Workers |-> IdleBuild]
    /\ clear = "idle"
    /\ out = IdleOut
    /\ MOOD_BASE_CACHE = <<>>
    /\ cleanup = IdleCleanup
    /\ password_reset_tokens = {}
    /\ users = ResetUsers
    /\ next_token_id = 1
    /\ reset = [w \in Workers |-> IdleReset]
    /\ _cache_store = CacheStore(1000)

\* forgot-password and reset-password requests served by the workers,
\* with tokens that were issued and one that never was, and the clock
NextReset ==
    \/ \E email \in ResetEmails, sent \in BOOLEAN : request_reset(email, sent)
    \/ \E w \in Workers, token \in 1..(MaxTokens + 1),
          new_password \in ResetPasswords :
          reset_password_query(w, token, new_password)
    \/ \E w \in Workers : reset_password_commit(w)
    \/ \E w \in Workers : reset_password_return(w)
    \/ TakeResult
    \/ Tick(25)

SpecReset == InitReset /\ [][NextReset]_vars

\* the same requests, every reset asking for the same new password
NextResetSame ==
    \/ \E email \in ResetEmails, sent \in BOOLEAN : request_reset(email, sent)
    \/ \E w \in Workers, token \in 1..(MaxTokens + 1) :
          reset_password_query(w, token, 1)
    \/ \E w \in Workers : reset_password_commit(w)
    \/ \E w \in Workers : reset_password_return(w)
    \/ TakeResult
    \/ Tick(25)

SpecResetSame == InitReset /\ [][NextResetSame]_vars

(***************************************************************************)
(* calculate_similarity_score, applied to pairs of stored movies           *)
(***************************************************************************)
\* the share of the first set that the second one holds, in thousandths of
\* the weight
OverlapOfFirst(a, b, weight) ==
    IF a # {} /\ b # {}
    THEN (Cardinality(a \cap b) * weight) \div Cardinality(a)
    ELSE 0

\* recommendation_service.py:341-343 (and :348-350, :355-357, :362-364)
\* len(a & b) / len(a | b) * weight when both sets are non-empty, nothing
\* otherwise
JaccardTerm(a, b, weight) ==
    IF a # {} /\ b # {}
    THEN (Cardinality(a \cap b) * weight) \div Cardinality(a \cup b)
    ELSE 0

\* recommendation_service.py:339-340  set(x if isinstance(x, list) else [])
ListSet(x) == IF IsList(x) THEN Range(x) ELSE {}

\* recommendation_service.py:319-367  the score in thousandths
calculate_similarity_score(movie1, movie2) ==
    JaccardTerm(ListSet(movie1.genres), ListSet(movie2.genres), GENRE_WEIGHT)
    + JaccardTerm(ListSet(movie1.keywords), ListSet(movie2.keywords),
                  KEYWORD_WEIGHT)
    + JaccardTerm(ListSet(movie1.cast), ListSet(movie2.cast), CAST_WEIGHT)
    + JaccardTerm(ListSet(movie1.crew), ListSet(movie2.crew), CREW_WEIGHT)

\* a caller scores the stored movie tmdb_id1 against the stored movie
\* tmdb_id2 and holds the pair and the score
calculate_similarity_score_call(tmdb_id1, tmdb_id2) ==
    /\ out = IdleOut
    /\ \E movie1 \in RowsFor(movie_cache, tmdb_id1),
          movie2 \in RowsFor(movie_cache, tmdb_id2) :
          out' = [IdleOut EXCEPT
                     !.op = "score",
                     !.movie_id = tmdb_id1,
                     !.value = <<[tmdb_id |-> tmdb_id2,
                                  similarity_score |->
                                      calculate_similarity_score(movie1,
                                                                 movie2)]>>]
    /\ UNCHANGED <<movie_cache, next_cache_id, now, FEATURE_VECTOR_CACHE,
                   fetch, job, movies, next_movie_id, ratings,
                   user_item_matrix_cache, cache_timestamp, build, clear,
                   MOOD_BASE_CACHE,
                   cleanup, authVars,
                   _cache_store>>

\* the JSON lists a column can hold: NULL, the empty list, and lists that
\* overlap in part
GenreLists == {Null, <<>>, <<28>>, <<28, 35>>, <<35, 18>>}
FeatureLists == {Null, <<>>, <<5>>, <<5, 6>>}

ScoreRow(t, genres, keywords, cast, crew) ==
    [id |-> t, tmdb_id |-> t, cached_at |-> 0,
     title |-> "M", release_date |-> "2020",
     vote_average |-> 70, popularity |-> t,
     genres |-> genres, keywords |-> keywords, keyword_names |-> <<>>,
     cast |-> cast, crew |-> crew]

ScoreIds == {1, 2}

\* two stored movies with any of the lists in each column
InitScore ==
    /\ \E g1 \in GenreLists, g2 \in GenreLists,
          k1 \in FeatureLists, k2 \in FeatureLists,
          c1 \in FeatureLists, c2 \in FeatureLists,
          w1 \in FeatureLists, w2 \in FeatureLists :
          movie_cache = {ScoreRow(1, g1, k1, c1, w1),
                         ScoreRow(2, g2, k2, c2, w2)}
    /\ next_cache_id = 3
    /\ now = 0
    /\ FEATURE_VECTOR_CACHE = <<>>
    /\ fetch = [w \in Workers |-> IdleFetch]
    /\ job = IdleJob
    /\ movies = {}
    /\ next_movie_id = 1
    /\ ratings = {}
    /\ user_item_matrix_cache = {}
    /\ cache_timestamp = NoTime
    /\ build = [w \in Workers |-> IdleBuild]
    /\ clear = "idle"
    /\ out = IdleOut
    /\ MOOD_BASE_CACHE = <<>>
    /\ cleanup = IdleCleanup
    /\ password_reset_tokens = {}
    /\ users = NoUsers
    /\ next_token_id = 1
    /\ reset = [w \in Workers |-> IdleReset]
    /\ _cache_store = CacheStore(1000)

NextScore ==
    \/ \E tmdb_id1 \in ScoreIds, tmdb_id2 \in ScoreIds :
          calculate_similarity_score_call(tmdb_id1, tmdb_id2)
    \/ TakeResult

SpecScore == InitScore /\ [][NextScore]_vars

\* the cleanup job started by the scheduler and by the manual trigger,
\* beside read requests and the clock, on the catalogue of InitMood
NextCleanup ==
    \/ \E e \in CleanupExecutors : cleanup_old_cache_begin(e)
    \/ \E e \in CleanupExecutors : cleanup_old_cache_delete(e)
    \/ \E e \in CleanupExecutors : cleanup_old_cache_commit(e)
    \/ /\ EventLoopFree
       /\ \E answer \in {0} \cup MoodVersions :
             get_similar_movies_call(1, 1, TRUE, answer)
    \/ TakeResult
    \/ Tick(25)

SpecCleanup == InitMood /\ [][NextCleanup]_vars

\* a small cache, too small for the KNN branch: targets with one and two
\* genres, a movie rated below SIMILAR_MIN_RATING, one of another genre,
\* one with an empty genre list, the last two cached 31 days ago
PoolRow(t) ==
    [id |-> t, tmdb_id |-> t,
     cached_at |-> IF t >= 4 THEN 0 - (CACHE_RETENTION_DAYS + 1) * DAY ELSE 0,
     title |-> "M", release_date |-> "2020",
     vote_average |-> IF t = 2 THEN 50 ELSE 70, popularity |-> t,
     genres |-> IF t = 3 THEN <<28, 35>> ELSE IF t = 4 THEN <<35>>
                ELSE IF t = 5 THEN <<>> ELSE <<28>>,
     keywords |-> <<>>, keyword_names |-> <<>>,
     cast |-> <<5>>, crew |-> <<9>>]

PoolIds == 1..5

InitPool ==
    /\ movie_cache = {PoolRow(t) : t \in PoolIds}
    /\ next_cache_id = 6
    /\ now = 0
    /\ FEATURE_VECTOR_CACHE = <<>>
    /\ fetch = [w \in Workers |-> IdleFetch]
    /\ job = IdleJob
    /\ movies = {}
    /\ next_movie_id = 1
    /\ ratings = {}
    /\ user_item_matrix_cache = {}
    /\ cache_timestamp = NoTime
    /\ build = [w \in Workers |-> IdleBuild]
    /\ clear = "idle"
    /\ out = IdleOut
    /\ MOOD_BASE_CACHE = <<>>
    /\ cleanup = IdleCleanup
    /\ password_reset_tokens = {}
    /\ users = NoUsers
    /\ next_token_id = 1
    /\ reset = [w \in Workers |-> IdleReset]
    /\ _cache_store = CacheStore(1000)

\* requests for every stored movie and for one that is not stored, beside
\* the cleanup job
NextPool ==
    \/ \E movie_id \in 1..6, limit \in 1..MaxLimit, use_knn \in BOOLEAN,
          answer \in {0, 1} :
          get_similar_movies_call(movie_id, limit, use_knn, answer)
    \/ cleanup_old_cache
    \/ TakeResult

SpecPool == InitPool /\ [][NextPool]_vars

\* collaborative_service.py:99-136  a caller asks for the k users most
\* similar to user_idx in the matrix that is held, and gets their indices
get_user_similarity_call(user_idx, k) ==
    /\ out = IdleOut
    /\ \E M \in user_item_matrix_cache :
          /\ user_idx \in M.user_to_idx
          /\ \E first \in Parallel(M, user_idx) :
                \E similar_indices \in
                       get_user_similarity(M, user_idx, k, first) :
                   out' = [IdleOut EXCEPT
                              !.op = "neighbours",
                              !.user_id = user_idx,
                              !.limit = k,
                              !.value = SetToSeq(similar_indices)]
    /\ UNCHANGED <<movie_cache, next_cache_id, now, FEATURE_VECTOR_CACHE,
                   fetch, job, movies, next_movie_id, ratings,
                   user_item_matrix_cache, cache_timestamp, build, clear,
                   MOOD_BASE_CACHE, cleanup, authVars,
                   _cache_store>>

\* the rating matrices of MaxUsers users over two movies, every user with a
\* rating: rows that are equal, multiples of each other, or neither
MatrixRatings == {0, 4, 8}
MatrixMovies == {1, 2}
MatrixCells ==
    {f \in [Users \X MatrixMovies -> MatrixRatings] :
        \A u \in Users : \E m \in MatrixMovies : f[<<u, m>>] > 0}

RatingsOfCells(f) ==
    {[user_id |-> c[1], movie_id |-> c[2], rating |-> f[c]] :
        c \in {d \in Users \X MatrixMovies : f[d] > 0}}

InitMatrix ==
    /\ \E f \in MatrixCells :
          /\ ratings = RatingsOfCells(f)
          /\ user_item_matrix_cache = {UserItemMatrix(RatingsOfCells(f))}
    /\ cache_timestamp = 0
    /\ movie_cache = {}
    /\ next_cache_id = 1
    /\ now = 0
    /\ FEATURE_VECTOR_CACHE = <<>>
    /\ fetch = [w \in Workers |-> IdleFetch]
    /\ job = IdleJob
    /\ movies = {}
    /\ next_movie_id = 1
    /\ build = [w \in Workers |-> IdleBuild]
    /\ clear = "idle"
    /\ out = IdleOut
    /\ MOOD_BASE_CACHE = <<>>
    /\ cleanup = IdleCleanup
    /\ password_reset_tokens = {}
    /\ users = NoUsers
    /\ next_token_id = 1
    /\ reset = [w \in Workers |-> IdleReset]
    /\ _cache_store = CacheStore(1000)

NextMatrix ==
    \/ \E user_idx \in Users, k \in 1..MaxRaters :
          get_user_similarity_call(user_idx, k)
    \/ TakeResult

SpecMatrix == InitMatrix /\ [][NextMatrix]_vars

\* CacheStore(max_size=MaxSize), empty, at second 0
InitCacheStore ==
    /\ movie_cache = {}
    /\ next_cache_id = 1
    /\ now = 0
    /\ FEATURE_VECTOR_CACHE = <<>>
    /\ fetch = [w \in Workers |-> IdleFetch]
    /\ job = IdleJob
    /\ movies = {}
    /\ next_movie_id = 1
    /\ ratings = {}
    /\ user_item_matrix_cache = {}
    /\ cache_timestamp = NoTime
    /\ build = [w \in Workers |-> IdleBuild]
    /\ clear = "idle"
    /\ MOOD_BASE_CACHE = <<>>
    /\ cleanup = IdleCleanup
    /\ password_reset_tokens = {}
    /\ users = NoUsers
    /\ next_token_id = 1
    /\ reset = [w \in Workers |-> IdleReset]
    /\ _cache_store = CacheStore(MaxSize)
    /\ out = IdleOut

NextCacheStore ==
    \/ \E key \in CacheKeys : CacheStore_get(key)
    \/ \E key \in CacheKeys, value \in CacheValues, ttl \in Ttls :
          CacheStore_set(key, value, ttl)
    \/ \E key \in CacheKeys : CacheStore_delete(key)
    \/ CacheStore_clear
    \/ CacheTick

SpecCacheStore == InitCacheStore /\ [][NextCacheStore]_vars

\* the hybrid requests of every user beside the rating requests of user 1
NextHybrid ==
    \/ \E tmdb_id \in 1..MaxRated, rating \in RatingValues :
          add_or_update_rating(1, tmdb_id, rating, 0)
    \/ \E movie_id \in 1..(MaxMovies + 1) : delete_rating(1, movie_id)
    \/ \E user_id \in Users, movie_id \in 0..(MaxMovies + 1),
          limit \in 1..MaxLimit, answer \in Answers :
          get_hybrid_recommendations(user_id, movie_id, limit, answer)
    \/ \E user_id \in Users, movie_id \in 1..(MaxMovies + 1),
          limit \in 1..MaxLimit, answer \in Answers :
          get_hybrid_recommendations_except(user_id, movie_id, limit, answer)
    \/ TakeResult
    \/ TickSeconds(CACHE_TTL_SECONDS)

SpecHybrid == InitCatalog /\ [][NextHybrid]_vars

(***************************************************************************)
(* Properties of the cache store                                           *)
(***************************************************************************)
\* the stored rows of movie_id that are younger than the staleness threshold
Young(movie_id) ==
    {r \in movie_cache : r.tmdb_id = movie_id
                         /\ now - r.cached_at < CACHE_EXPIRY_DAYS * DAY}

\* the stored rows of movie_id that have reached the staleness threshold
Stale(movie_id) ==
    {r \in movie_cache : r.tmdb_id = movie_id
                         /\ now - r.cached_at >= CACHE_EXPIRY_DAYS * DAY}

\* C1: a fetch_and_cache_movie call for an id whose stored entry is younger
\* than 7 days ends at once with that entry as its result, has made no
\* provider call and leaves the store as it was; so does every further call
\* inside the window.
C1_CacheHitIdempotent ==
    [][\A w \in Workers :
          (fetch[w].pc = "idle" /\ fetch'[w].pc # "idle"
              /\ Young(fetch'[w].movie_id) # {})
          => /\ fetch'[w].pc = "done"
             /\ fetch'[w].result = Young(fetch'[w].movie_id)
             /\ fetch'[w].calls = 0
             /\ movie_cache' = movie_cache
             /\ next_cache_id' = next_cache_id]_vars

\* a call answered from the store some days after the entry was cached
C1_Witness ==
    \E w \in Workers :
        /\ fetch[w].pc = "done"
        /\ fetch[w].outcome = "hit"
        /\ fetch[w].calls = 0
        /\ \E r \in fetch[w].result : r \in movie_cache /\ now > r.cached_at

\* C2: when the provider call of fetch_and_cache_movie fails for an id that
\* has a stale stored entry, the call returns that entry and leaves it
\* unchanged.
C2_SoftFailRead ==
    [][\A w \in Workers :
          (fetch[w].pc = "tmdb" /\ fetch'[w].pc = "done"
              /\ fetch'[w].outcome = "provider_failed"
              /\ fetch[w].stale # {}
              /\ fetch[w].stale = Stale(fetch[w].movie_id))
          => /\ fetch'[w].result = fetch[w].stale
             /\ movie_cache' = movie_cache]_vars

\* C3: when the id has a stale stored entry and the provider answers, the
\* call returns a refreshed entry, the store holds exactly one row for the
\* id, the row carries fetched attributes and a later cached_at.
C3_StaleRefreshUpserts ==
    [][\A w \in Workers :
          (fetch[w].pc = "tmdb" /\ fetch'[w].pc = "done"
              /\ fetch'[w].outcome # "provider_failed"
              /\ fetch[w].stale # {}
              /\ fetch[w].stale = Stale(fetch[w].movie_id))
          => /\ fetch'[w].result # {}
             /\ fetch'[w].result = RowsFor(movie_cache', fetch[w].movie_id)
             /\ Cardinality(fetch'[w].result) = 1
             /\ \A r \in fetch'[w].result :
                   /\ \E v \in Versions : AttrsOf(r) = FetchAttrs(v)
                   /\ \A old \in Stale(fetch[w].movie_id) :
                         r.cached_at > old.cached_at]_vars

\* the attributes of a row all come from one write: one provider answer
\* stored by fetch_and_cache_movie, or one list entry stored by the job
SingleSnapshot(r) ==
    \/ \E v \in Versions : AttrsOf(r) = FetchAttrs(v)
    \/ \E kind \in ItemKinds :
          r = CreatedRow(r.id, r.tmdb_id,
                         CacheData(TrendingItem(r.tmdb_id, kind), r.cached_at))

C6_InsufficientDataFallback ==
    [][(out = IdleOut /\ out'.op = "predict"
            /\ Cardinality(ratings) < MIN_RATINGS_FOR_CF)
        => (out'.kind = "ok" /\ out'.value = <<>>)]_vars

\* a complete triple: the matrix has a row for every user of user_to_idx
\* and every row a cell for every movie of movie_to_idx
CompleteTriple(M) ==
    /\ DOMAIN M.matrix = M.user_to_idx
    /\ \A u \in M.user_to_idx : DOMAIN M.matrix[u] = M.movie_to_idx

\* C7: whatever the interleaving of build_user_item_matrix and clear_cache
\* calls, a build_user_item_matrix call returns a complete triple or the
\* (None, None, None) insufficient-data result.
C7_NoHalfBuiltMatrix ==
    \A w \in Workers :
        build[w].pc = "done"
        => \/ build[w].result.kind = "insufficient"
           \/ /\ build[w].result.kind = "triple"
              /\ \E M \in build[w].result.value : CompleteTriple(M)

C9_SortedByHybridScore ==
    out.op = "hybrid"
    => \A i, j \in 1..Len(out.value) :
          i < j => out.value[i].hybrid_score >= out.value[j].hybrid_score

\* C10: no item of a list returned by get_hybrid_recommendations is a movie
\* that the requesting user has a stored rating for.
C10_NoRatedMovie ==
    [][(out = IdleOut /\ out'.op = "hybrid")
        => \A i \in 1..Len(out'.value) :
              ~ \E r \in ratings, m \in movies :
                    /\ r.user_id = out'.user_id
                    /\ r.movie_id = m.id
                    /\ m.tmdb_id = out'.value[i].tmdb_id]_vars

\* C11: no movie appears more than once in a list returned by
\* get_hybrid_recommendations: no two places of the list hold the same
\* tmdb_id, whichever component or the popularity backfill produced them.
C11_NoDuplicateMovie ==
    out.op = "hybrid" =>
        \A i, j \in 1..Len(out.value) :
            out.value[i].tmdb_id = out.value[j].tmdb_id => i = j

\* C12: get_hybrid_recommendations returns at most limit items, after the
\* popularity backfill and on the path of its exception handler as well.
C12_AtMostLimit ==
    out.op \in {"hybrid", "hybrid_except"} => Len(out.value) <= out.limit

\* a list of exactly limit items whose last one came from the backfill while
\* the cache holds more popular rows than the backfill took
C12_Witness ==
    /\ out.op = "hybrid"
    /\ Len(out.value) = out.limit
    /\ out.limit >= 2
    /\ out.value[1].hybrid_score # FALLBACK_HYBRID_SCORE
    /\ out.value[out.limit].hybrid_score = FALLBACK_HYBRID_SCORE
    /\ out.value[out.limit].collab_score = 0
    /\ \E m \in movie_cache :
          /\ m.vote_average >= POPULAR_MIN_RATING
          /\ \A i \in 1..Len(out.value) : out.value[i].tmdb_id # m.tmdb_id

\* the exception handler returned exactly limit items
C12_WitnessExcept ==
    /\ out.op = "hybrid_except"
    /\ Len(out.value) = out.limit
    /\ Cardinality(movie_cache) > out.limit + 1

\* C13: for a user with no rating and no seed movie,
\* get_hybrid_recommendations returns at most limit items, each a cached
\* movie rated 7.0 or more with no collaborative contribution, and the list
\* is not empty while the cache holds such a movie: the items are those of
\* the popularity fallback.
C13_ColdStartPopular ==
    [][(/\ out = IdleOut
        /\ out'.op = "hybrid"
        /\ out'.movie_id = 0
        /\ ~ \E r \in ratings : r.user_id = out'.user_id)
       => (/\ Len(out'.value) <= out'.limit
           /\ \A i \in 1..Len(out'.value) :
                 /\ out'.value[i].collab_score = 0
                 /\ \E m \in movie_cache :
                       /\ m.tmdb_id = out'.value[i].tmdb_id
                       /\ m.vote_average >= POPULAR_MIN_RATING
           /\ (\E m \in movie_cache : m.vote_average >= POPULAR_MIN_RATING)
                 => out'.value # <<>>)]_vars

\* the rows of a table for a user and a movie given by its tmdb id
RowsOfPair(rs, ms, user_id, tmdb_id) ==
    {r \in rs : /\ r.user_id = user_id
                /\ \E m \in ms : m.tmdb_id = tmdb_id /\ m.id = r.movie_id}

\* C14: a call of add_or_update_rating with a value in [1, 10] leaves
\* exactly one row for its (user, movie) pair, holding the value of the
\* call, leaves the rows of every other pair as they were, and the table
\* never holds two rows for one pair.
C14_RatingUpsert ==
    [][\A user_id \in RatingUsers, tmdb_id \in UpsertIds,
          rating \in UpsertValues, answer \in Answers :
          add_or_update_rating(user_id, tmdb_id, rating, answer)
          => /\ \E r \in ratings' :
                   /\ RowsOfPair(ratings', movies', user_id, tmdb_id) = {r}
                   /\ r.rating = rating
             /\ \A r \in ratings :
                   r \notin RowsOfPair(ratings, movies', user_id, tmdb_id)
                      => r \in ratings'
             /\ \A r1, r2 \in ratings' :
                   (r1.user_id = r2.user_id /\ r1.movie_id = r2.movie_id)
                      => r1 = r2]_vars

\* user 2, whose rating of tmdb 1 was 7 from the start, holds 4 for it
\* after an update, with a row for every catalogue movie as before, and
\* holds 9 for a movie that was in no table
C14_Witness ==
    /\ \E r \in RowsOfPair(ratings, movies, 2, 1) : r.rating = 4
    /\ \E r \in RowsOfPair(ratings, movies, 2, MaxMovies + 1) : r.rating = 9
    /\ Cardinality({r \in ratings : r.user_id = 2}) = MaxMovies + 1

C16_GenrelessTarget ==
    [][(/\ out = IdleOut
        /\ out'.op = "similar"
        /\ out'.kind # "none"
        /\ \E m \in RowsFor(movie_cache', out'.movie_id) : GenreSet(m) = {})
       => (out'.kind = "genre" /\ out'.value = <<>>)]_vars

\* a genre-less target answered by the fallback with [] while the cache
\* holds MIN_CACHE_SIZE rows that qualify as KNN candidates
C16_Witness ==
    /\ out.op = "similar"
    /\ out.kind = "genre"
    /\ out.value = <<>>
    /\ \E m \in RowsFor(movie_cache, out.movie_id) : GenreSet(m) = {}
    /\ Cardinality({m \in movie_cache :
                       /\ m.vote_average >= SIMILAR_MIN_RATING
                       /\ GenreSet(m) # {}}) > MIN_CACHE_SIZE

\* C17: calculate_similarity_score is symmetric: the score a caller got for
\* a pair of stored movies is the score of the pair taken the other way
\* round, whatever lists (empty and missing ones included) the genre,
\* keyword, cast and crew columns hold.
C17_SimilaritySymmetric ==
    out.op = "score"
    => \A movie1 \in RowsFor(movie_cache, out.movie_id),
          movie2 \in RowsFor(movie_cache, out.value[1].tmdb_id) :
          out.value[1].similarity_score
             = calculate_similarity_score(movie2, movie1)

\* two different movies scored strictly between 0 and 1, one with a missing
\* list, one with an empty list, and one column overlapping only in part
C17_Witness ==
    /\ out.op = "score"
    /\ out.movie_id # out.value[1].tmdb_id
    /\ out.value[1].similarity_score > 0
    /\ out.value[1].similarity_score < 1000
    /\ \E movie1 \in RowsFor(movie_cache, out.movie_id),
          movie2 \in RowsFor(movie_cache, out.value[1].tmdb_id) :
          /\ ~IsList(movie1.keywords)
          /\ movie2.cast = <<>>
          /\ ListSet(movie1.genres) \cap ListSet(movie2.genres) # {}
          /\ ListSet(movie1.genres) \ ListSet(movie2.genres) # {}
          /\ ListSet(movie2.genres) \ ListSet(movie1.genres) # {}
          /\ Cardinality(ListSet(movie1.crew))
                < Cardinality(ListSet(movie2.crew))

\* C19: get_similar_movies never runs the KNN search on a pool of fewer
\* than 50 candidates: whenever a request was answered by the KNN branch,
\* at least 50 stored movies qualified as candidates of its target.
C19_KnnPoolAtLeast50 ==
    [][(out = IdleOut /\ out'.op = "similar" /\ out'.kind = "knn")
       => \A m \in RowsFor(movie_cache', out'.movie_id) :
             Cardinality(SimilarPool(movie_cache', m)) >= 50]_vars

\* C18: at no time are two executions of cleanup_old_cache in progress,
\* whether the scheduler or the manual trigger started them.
C18_SingleCleanup ==
    Cardinality({e \in CleanupExecutors : cleanup.pc[e] # "idle"}) <= 1

\* C20: a password-reset token leads to at most one successful
\* reset_password: when a request finishes while another request holds a
\* successful outcome for the same token, it is rejected with "Invalid or
\* expired reset token." and the password stays as it is.
C20_TokenSingleUse ==
    [][\A w \in Workers :
          (/\ reset[w].pc # "done"
           /\ reset'[w].pc = "done"
           /\ \E v \in Workers \ {w} :
                 /\ reset[v].outcome = "ok"
                 /\ reset[v].token = reset'[w].token)
          => (/\ reset'[w].outcome = "Invalid or expired reset token."
              /\ users' = users)]_vars

\* C21: a reset_password request made with a token that is unknown, already
\* used or past its expiry time is answered with "Invalid or expired reset
\* token." and leaves the users table and every token row as they were.
C21_FailedResetChangesNothing ==
    [][\A w \in Workers :
          (/\ reset[w].pc = "idle"
           /\ reset'[w].pc # "idle"
           /\ \A r \in password_reset_tokens :
                 r.token_hash = _hash_token(reset'[w].token)
                 => (r.used_at # NoTime \/ r.expires_at < now))
          => (/\ reset'[w].pc = "done"
              /\ reset'[w].outcome = "Invalid or expired reset token."
              /\ users' = users
              /\ password_reset_tokens' = password_reset_tokens)]_vars

\* one request was rejected for a token that a reset has used, another for
\* a token that was never issued, and the password is the one that reset
\* wrote
C21_Witness ==
    \E w1, w2 \in Workers :
       /\ reset[w1].outcome = "Invalid or expired reset token."
       /\ reset[w2].outcome = "Invalid or expired reset token."
       /\ \E r \in password_reset_tokens :
             /\ r.token_hash = _hash_token(reset[w1].token)
             /\ r.used_at # NoTime
       /\ \A r \in password_reset_tokens :
             r.token_hash # _hash_token(reset[w2].token)
       /\ users[1].password_hash # hash_password(0)

C23_SimilarPoolConstraints ==
    [][(out = IdleOut /\ out'.op = "similar")
       => \A i \in 1..Len(out'.value) :
             /\ out'.value[i].tmdb_id # out'.movie_id
             /\ \A m \in RowsFor(movie_cache', out'.value[i].tmdb_id) :
                   /\ GenreSet(m) # {}
                   /\ \A target \in RowsFor(movie_cache', out'.movie_id) :
                         GenreSet(m) \cap GenreSet(target) # {}
                   /\ m.vote_average >= SIMILAR_MIN_RATING]_vars

\* C24: get_user_similarity returns at most k user indices, and the target
\* user's own index is not among them, also when another user's row has the
\* cosine similarity to the target's that the target's own row has.
C24_NeighboursExcludeTarget ==
    out.op = "neighbours"
    => /\ Len(out.value) <= out.limit
       /\ \A i \in 1..Len(out.value) : out.value[i] # out.user_id

\* C25: whatever ratings were added or updated before the call, a value
\* that predict_ratings_collaborative returns for an item the target user
\* has rated is exactly the user's stored rating for that item.
C25_OwnRatingVerbatim ==
    [][(out = IdleOut /\ out'.op = "predict" /\ out'.kind = "ok")
       => \A i \in 1..Len(out'.value) :
             \A r \in ratings :
                (r.user_id = out'.user_id
                 /\ r.movie_id = out'.value[i].movie_id)
                => out'.value[i].predicted_rating = 1000 * r.rating]_vars

\* C26: in a list returned by get_mood_based_recommendations, backfill
\* items included, no (release year, primary genre) pairing is that of more
\* than 2 results.
C26_MoodDiversityCap ==
    [][(out = IdleOut /\ out'.op = "mood")
       => \A i \in 1..Len(out'.value) :
             Cardinality({j \in 1..Len(out'.value) :
                 /\ Year(out'.value[j].release_date)
                       = Year(out'.value[i].release_date)
                 /\ PrimaryGenre(out'.value[j])
                       = PrimaryGenre(out'.value[i])}) <= 2]_vars

\* C27: no movie returned by get_mood_based_recommendations is a movie for
\* which the requesting user has a stored rating.
C27_MoodNeverRated ==
    [][(out = IdleOut /\ out'.op = "mood")
       => \A i \in 1..Len(out'.value) :
             ~ \E r \in ratings, m \in movies :
                  /\ r.user_id = out'.user_id
                  /\ m.id = r.movie_id
                  /\ m.tmdb_id = out'.value[i].tmdb_id]_vars

\* C28: when get_hybrid_recommendations is called without a seed for a user
\* who has ratings, the id handed to get_similar_movies is the tmdb_id of a
\* movie that the user rated highest.
C28_ImplicitSeed ==
    [][(/\ out = IdleOut
        /\ out'.op = "hybrid"
        /\ out'.movie_id = 0
        /\ \E r \in ratings : r.user_id = out'.user_id)
       => \E r \in ratings, m \in movies :
             /\ r.user_id = out'.user_id
             /\ \A q \in ratings :
                   q.user_id = out'.user_id => q.rating <= r.rating
             /\ m.id = r.movie_id
             /\ m.tmdb_id = out'.seed]_vars

\* C29: a CacheStore never holds more than max_size entries, and a set that
\* pushes it over max_size evicts exactly one entry: the least recently
\* written or successfully read one, never the entry just written.
C29_LruBound ==
    [][LET c == _cache_store.cache
           d == _cache_store'.cache
       IN  /\ Len(d) <= _cache_store'.max_size
           /\ (/\ _cache_store'.uses = _cache_store.uses + 1
               /\ out'.op = "set"
               /\ ~HasKey(c, out'.key)
               /\ Len(c) + 1 > _cache_store.max_size)
              => \E i \in 1..Len(c) :
                    /\ \A j \in 1..Len(c) : c[i].used <= c[j].used
                    /\ c[i].key # out'.key
                    /\ out'.value = <<c[i].key>>
                    /\ Len(d) = Len(c)
                    /\ {d[k].key : k \in 1..Len(d)} =
                          ({c[k].key : k \in 1..Len(c)} \ {c[i].key})
                             \cup {out'.key}]_vars

\* a set has evicted key 2 and kept key 1, which was read just before
C29_Witness ==
    /\ out.op = "set"
    /\ out.value = <<2>>
    /\ _cache_store.hits = 1
    /\ Len(_cache_store.cache) = 2
    /\ _cache_store.cache[1].key = 1
    /\ _cache_store.cache[1].used = 3
    /\ _cache_store.cache[2].key = out.key

\* C30: an entry written by set with a ttl other than None is not returned
\* by a get made more than ttl seconds after the set: the get returns None,
\* removes the entry and counts a miss.
C30_TtlExpiry ==
    [][(/\ _cache_store'.uses = _cache_store.uses + 1
        /\ out'.op = "get"
        /\ HasKey(_cache_store.cache, out'.key)
        /\ EntryOf(_cache_store.cache, out'.key).due # <<>>
        /\ now > EntryOf(_cache_store.cache, out'.key).due[1])
       => /\ out'.kind = "miss"
          /\ out'.value = <<>>
          /\ ~HasKey(_cache_store'.cache, out'.key)
          /\ _cache_store'.misses = _cache_store.misses + 1]_vars
====
